---- MODULE Spec2Model ----
(***************************************************************************)
(* Model of the Excel -> VTEX synchronisation service.                     *)
(*                                                                         *)
(*   ps      processStatus.currentStatus (ProcessStatusService)            *)
(*   sched   ScheduledService: cronJob, isRunning, pending startup timers  *)
(*   task    the asynchronous activations of the pipeline (one per         *)
(*           trigger that started one): position and local variables       *)
(*   inbox   objects .xlsx/.xls under Archivos_sheets/ in the bucket       *)
(*   archive spreadsheets under Publicaciones_json_vtex/                   *)
(*   copies  names of the JSON copies under Publicaciones_json_vtex/       *)
(*   meta    per object: its name, metadata.updated, the workbook it holds *)
(*   artifact  the local JSON artifact (config.files.outputJsonPath)       *)
(*   latest  ExcelService._latestGcpExcelFile                              *)
(*   now     the wall clock                                                *)
(*   out     the observable result of the last step: what a trigger       *)
(*           answered, the HTTP status a request ended with                *)
(*   processed   which execution published which spreadsheet (history)     *)
(*   nextId, nrun   executions and pipeline runs started so far            *)
(*   lim     the bounds of the run                                         *)
(*   calc    the transformation or delivery under evaluation: its input    *)
(*           and, once applied, its result                                 *)
(***************************************************************************)
EXTENDS Integers, Sequences, FiniteSets, TLC

VARIABLES ps, sched, task, inbox, archive, copies, meta, artifact, latest, now,
          out, processed, nextId, nrun, lim, calc

vars == <<ps, sched, task, inbox, archive, copies, meta, artifact, latest, now,
          out, processed, nextId, nrun, lim, calc>>

(* ------------------------------ bounds -------------------------------- *)
MaxRuns == 2
MaxFiles == 1
MaxRows == 0
MaxClock == 1
MaxTimers == 1

Tasks == 1..MaxRuns
Files == 1..MaxFiles

(* ----------------------------- constants ------------------------------ *)
maxHistorySize == 50

NoFile == 0
NoTime == -1
Undefined == -1
NoSheets == -2

(* ------------------------------ errors -------------------------------- *)
\* A JS error object, by the fields the service reads: type, code, statusCode.
NullError ==
  [message |-> "null", type |-> "null", code |-> "null", statusCode |-> 0]

PlainError ==
  [message |-> "Error", type |-> "undefined", code |-> "undefined", statusCode |-> 0]

EnoentError ==
  [message |-> "ENOENT", type |-> "undefined", code |-> "ENOENT", statusCode |-> 0]

ExcelError ==
  [message |-> "Error procesando Excel", type |-> "EXCEL_ERROR", code |-> "undefined", statusCode |-> 500]

VtexError(statusCode) ==
  [message |-> "Error VTEX API", type |-> "VTEX_ERROR", code |-> "undefined", statusCode |-> statusCode]

ValidationError ==
  [message |-> "Error de validacion", type |-> "VALIDATION_ERROR", code |-> "undefined", statusCode |-> 400]

serializeError(error) ==
  IF error = NullError THEN NullError
  ELSE [message |-> error.message,
        type |-> IF error.type = "undefined" THEN "UNKNOWN_ERROR" ELSE error.type,
        code |-> IF error.code = "undefined" THEN "null" ELSE error.code,
        statusCode |-> error.statusCode]

(* ------------------------- ProcessStatusService ----------------------- *)
NoExecution ==
  [id |-> 0, trigger |-> "none", startedAt |-> NoTime, endedAt |-> NoTime,
   status |-> "none", recordsProcessed |-> 0, error |-> NullError,
   vtexResponse |-> "null", duration |-> NoTime]

PsInit ==
  [isRunning |-> FALSE, lastExecution |-> NoExecution, executionHistory |-> <<>>]

\* A faulty startProcess: the new execution is pushed to the history at once.
startProcess_Recorded(p, trigger, id, t) ==
  LET execution ==
        [id |-> id, trigger |-> trigger, startedAt |-> t, endedAt |-> NoTime,
         status |-> "running", recordsProcessed |-> 0, error |-> NullError,
         vtexResponse |-> "null", duration |-> NoTime]
  IN  [isRunning |-> TRUE,
       lastExecution |-> execution,
       executionHistory |-> Append(p.executionHistory, execution)]

startProcess(p, trigger, id, t) ==
  [p EXCEPT !.isRunning = TRUE,
            !.lastExecution =
               [id |-> id, trigger |-> trigger, startedAt |-> t, endedAt |-> NoTime,
                status |-> "running", recordsProcessed |-> 0, error |-> NullError,
                vtexResponse |-> "null", duration |-> NoTime]]

\* A faulty addToHistory: it never evicts.
addToHistory_Unbounded(h, execution) == Append(h, execution)

addToHistory(h, execution) ==
  LET h1 == Append(h, execution)
  IN  IF Len(h1) > maxHistorySize THEN Tail(h1) ELSE h1

\* A faulty completeProcess: it neither clears isRunning nor records the end.
completeProcess_StillRunning(p, recordsProcessed, error, vtexResponse, t) ==
  IF p.lastExecution = NoExecution THEN p
  ELSE [p EXCEPT !.lastExecution.recordsProcessed = recordsProcessed]

\* A faulty completeProcess: the execution is pushed to the history before its
\* end is written to it.
completeProcess_RecordsFirst(p, recordsProcessed, error, vtexResponse, t) ==
  IF p.lastExecution = NoExecution THEN p
  ELSE [isRunning |-> FALSE,
        lastExecution |->
          [p.lastExecution EXCEPT
             !.endedAt = t,
             !.status = IF error # NullError THEN "failed" ELSE "completed",
             !.recordsProcessed = recordsProcessed,
             !.error = serializeError(error),
             !.vtexResponse = vtexResponse,
             !.duration = t - p.lastExecution.startedAt],
        executionHistory |-> addToHistory(p.executionHistory, p.lastExecution)]

\* A faulty completeProcess: the status does not look at the error.
completeProcess_AlwaysCompleted(p, recordsProcessed, error, vtexResponse, t) ==
  IF p.lastExecution = NoExecution THEN p
  ELSE LET execution ==
             [p.lastExecution EXCEPT
                !.endedAt = t,
                !.status = "completed",
                !.recordsProcessed = recordsProcessed,
                !.error = serializeError(error),
                !.vtexResponse = vtexResponse,
                !.duration = t - p.lastExecution.startedAt]
       IN  [isRunning |-> FALSE,
            lastExecution |-> execution,
            executionHistory |-> addToHistory(p.executionHistory, execution)]

\* recordsProcessed = 0 is the parameter's default, taken for undefined.
completeProcess(p, recordsProcessed, error, vtexResponse, t) ==
  IF p.lastExecution = NoExecution THEN p
  ELSE LET execution ==
             [p.lastExecution EXCEPT
                !.endedAt = t,
                !.status = IF error # NullError THEN "failed" ELSE "completed",
                !.recordsProcessed = IF recordsProcessed = Undefined THEN 0
                                     ELSE recordsProcessed,
                !.error = serializeError(error),
                !.vtexResponse = vtexResponse,
                !.duration = t - p.lastExecution.startedAt]
       IN  [isRunning |-> FALSE,
            lastExecution |-> execution,
            executionHistory |-> addToHistory(p.executionHistory, execution)]

\* A faulty cancelProcess: it leaves the running flag set.
cancelProcess_KeepsFlag(p, reason, t) ==
  IF ~p.isRunning THEN p
  ELSE LET execution ==
             [p.lastExecution EXCEPT
                !.endedAt = t,
                !.status = "cancelled",
                !.error = [message |-> reason, type |-> "CANCELLATION",
                           code |-> "null", statusCode |-> 0],
                !.duration = t - p.lastExecution.startedAt]
       IN  [isRunning |-> TRUE,
            lastExecution |-> execution,
            executionHistory |-> Append(p.executionHistory, execution)]

\* A faulty cancelProcess: the cancelled execution is not put in the history.
cancelProcess_Unrecorded(p, reason, t) ==
  IF ~p.isRunning THEN p
  ELSE [isRunning |-> FALSE,
        lastExecution |->
          [p.lastExecution EXCEPT
             !.endedAt = t,
             !.status = "cancelled",
             !.error = [message |-> reason, type |-> "CANCELLATION",
                        code |-> "null", statusCode |-> 0],
             !.duration = t - p.lastExecution.startedAt],
        executionHistory |-> p.executionHistory]

\* What cancelProcess returns.
cancelProcessReturns(p) == p.isRunning

cancelProcess(p, reason, t) ==
  IF ~p.isRunning THEN p
  ELSE LET execution ==
             [p.lastExecution EXCEPT
                !.endedAt = t,
                !.status = "cancelled",
                !.error = [message |-> reason, type |-> "CANCELLATION",
                           code |-> "null", statusCode |-> 0],
                !.duration = t - p.lastExecution.startedAt]
       IN  [isRunning |-> FALSE,
            lastExecution |-> execution,
            executionHistory |-> addToHistory(p.executionHistory, execution)]

\* calculateStats: the four counts.
calculateStats(history) ==
  LET count(status) == Cardinality({i \in DOMAIN history : history[i].status = status})
  IN  [totalExecutions |-> Len(history),
       successfulExecutions |-> count("completed"),
       failedExecutions |-> count("failed"),
       cancelledExecutions |-> count("cancelled")]

\* A faulty canStartNewProcess: it never refuses.
canStartNewProcess_Always(p) == TRUE

canStartNewProcess(p) == ~p.isRunning

(* --------------------------- ScheduledService ------------------------- *)
SchedInit ==
  [cronJob |-> FALSE, isRunning |-> FALSE, lastExecution |-> NoTime, timers |-> 0]

\* start(): valid is cron.validate(config.cron.schedule), runOnStartup is
\* process.env.RUN_ON_STARTUP === 'true' (one more pending setTimeout).
start(s, valid, runOnStartup) ==
  IF s.cronJob THEN s
  ELSE IF ~valid THEN s
  ELSE [s EXCEPT !.cronJob = TRUE, !.isRunning = TRUE,
                 !.timers = IF runOnStartup THEN s.timers + 1 ELSE s.timers]

\* start() ends in a throw: only for a pattern cron.validate rejects.
startThrows(s, valid) == ~s.cronJob /\ ~valid

\* A faulty stop(): the scheduler's isRunning flag is left set.
stop_KeepsFlag(s, p, t) ==
  IF ~s.cronJob THEN [sched |-> s, ps |-> p]
  ELSE [sched |-> [s EXCEPT !.cronJob = FALSE],
        ps |-> IF ~p.isRunning THEN p ELSE cancelProcess(p, "Servicio detenido", t)]

\* stop(): the scheduler and the status tracker after the call.
stop(s, p, t) ==
  IF ~s.cronJob THEN [sched |-> s, ps |-> p]
  ELSE [sched |-> [s EXCEPT !.cronJob = FALSE, !.isRunning = FALSE],
        ps |-> IF canStartNewProcess(p) = FALSE
                 THEN cancelProcess(p, "Servicio detenido", t) ELSE p]

\* handleScheduledTaskError: TRUE when the branch taken calls this.stop().
stopsOnError(error) ==
  IF error.type = "EXCEL_ERROR" THEN FALSE
  ELSE IF error.type = "VTEX_ERROR"
         THEN error.statusCode = 401 \/ error.statusCode = 403
  ELSE IF error.code = "ENOENT" THEN TRUE
  ELSE FALSE

(* ------------------------------ VtexService --------------------------- *)
\* What readExcelAndConvert returns: finalData, an object {metadata, sheets};
\* it is no array and has no length property.
finalData(rows) == [isArray |-> FALSE, length |-> Undefined, totalRecords |-> rows]

\* sendData: failedRecords is errorCount after the batch loop.
sendData(jsonData, failedRecords) ==
  IF ~jsonData.isArray \/ jsonData.length = 0
    THEN [thrown |-> TRUE, error |-> ValidationError,
          success |-> FALSE]
    ELSE [thrown |-> FALSE, error |-> NullError, success |-> failedRecords = 0]

FailedChoices(r) ==
  IF ~r.thrown /\ r.data.isArray THEN 0..r.data.length ELSE {0}

(* --------------------------- results of the pipeline ------------------ *)
NoOut == [op |-> "none", res |-> "none", code |-> 0]

Throw(error) == [thrown |-> TRUE, error |-> error, data |-> finalData(Undefined)]
Return(rows) == [thrown |-> FALSE, error |-> NullError, data |-> finalData(rows)]

\* errorHandler: the HTTP status of a rethrown error (AppError keeps its own).
httpStatus(error) ==
  IF error = NullError THEN 200
  ELSE IF error.type \in {"EXCEL_ERROR", "VTEX_ERROR", "VALIDATION_ERROR"}
    THEN error.statusCode
  ELSE 500

\* executeScheduledTask, after readExcelAndConvert: the error its catch block
\* receives, NullError when the try block runs to its end.
autoCaught(r, failedRecords) ==
  IF r.thrown THEN r.error
  ELSE IF r.data.length = 0
    THEN PlainError
  ELSE LET v == sendData(r.data, failedRecords)
       IN  IF v.thrown THEN v.error
           ELSE IF ~v.success THEN PlainError
           ELSE NullError

\* POST /force-update, after readExcelAndConvert: the error its catch block receives.
manualCaught(r, failedRecords) ==
  IF r.thrown THEN r.error
  ELSE LET v == sendData(r.data, failedRecords)
       IN  IF v.thrown THEN v.error ELSE NullError

\* POST /test-excel: jsonData.slice(0, 3) on a value that is no array throws a
\* TypeError, which the catch block rethrows.
testCaught(r) ==
  IF r.thrown THEN r.error
  ELSE IF ~r.data.isArray THEN PlainError
  ELSE NullError

\* The status tracker and the scheduler after the cycle's last statements.
cycleEnd(kind, r, failedRecords, p, s, t) ==
  IF kind = "auto" THEN
    LET err == autoCaught(r, failedRecords)
        p1  == IF err = NullError
                 THEN completeProcess(p, r.data.length, NullError, "response", t)
                 ELSE completeProcess(p, 0, err, "null", t)
        st  == IF err # NullError /\ stopsOnError(err)
                 THEN stop(s, p1, t) ELSE [sched |-> s, ps |-> p1]
    IN  [ps |-> st.ps, sched |-> st.sched, error |-> err, out |-> NoOut]
  ELSE IF kind = "manual" THEN
    LET err == manualCaught(r, failedRecords)
        p1  == IF err = NullError
                 THEN completeProcess(p, r.data.length, NullError, "response", t)
                 ELSE completeProcess(p, 0, err, "null", t)
    IN  [ps |-> p1, sched |-> s, error |-> err,
         out |-> [op |-> "manual", res |-> "responded", code |-> httpStatus(err)]]
  ELSE
    LET err == testCaught(r)
    IN  [ps |-> p, sched |-> s, error |-> err,
         out |-> [op |-> "test", res |-> "responded", code |-> httpStatus(err)]]

(* ----------------------------- file names ----------------------------- *)
\* A file name is the sequence of its characters.
HOME_RD_1 == <<"H", "O", "M", "E", "_", "R", "D", "_", "1">>
home_rd_1 == <<"h", "o", "m", "e", "_", "r", "d", "_", "1">>
Home_Prd_2 == <<"H", "o", "m", "e", "_", "P", "r", "d", "_", "2">>
LOCATIONS_RD_1 == <<"L", "O", "C", "A", "T", "I", "O", "N", "S", "_", "R", "D", "_", "1">>
locations_prd_2 == <<"l", "o", "c", "a", "t", "i", "o", "n", "s", "_", "p", "r", "d", "_", "2">>
SELLERS_1 == <<"S", "E", "L", "L", "E", "R", "S", "_", "1">>
Sellers_2 == <<"S", "e", "l", "l", "e", "r", "s", "_", "2">>
HOME == <<"H", "O", "M", "E">>
STOCK_1 == <<"S", "T", "O", "C", "K", "_", "1">>
XHOME_1 == <<"X", "H", "O", "M", "E", "_", "1">>
EmptyName == <<>>
\* fileName missing: undefined or null.
NoName == <<"undefined">>

SourceNames ==
  {HOME_RD_1, home_rd_1, Home_Prd_2, LOCATIONS_RD_1, locations_prd_2,
   SELLERS_1, Sellers_2, HOME, STOCK_1, XHOME_1}

\* String.prototype.toUpperCase, on the letters the names above are made of.
UpperOf ==
  [a |-> "A", c |-> "C", d |-> "D", e |-> "E", h |-> "H", i |-> "I", k |-> "K",
   l |-> "L", m |-> "M", n |-> "N", o |-> "O", p |-> "P", r |-> "R", s |-> "S",
   t |-> "T", x |-> "X"]

toUpperCase(str) ==
  [i \in DOMAIN str |-> IF str[i] \in DOMAIN UpperOf THEN UpperOf[str[i]] ELSE str[i]]

startsWith(str, prefix) ==
  /\ Len(str) >= Len(prefix)
  /\ SubSeq(str, 1, Len(prefix)) = prefix

\* A faulty detectFileType: it compares the name as written.
detectFileType_CaseSensitive(fileName) ==
  IF startsWith(fileName, <<"H", "O", "M", "E", "_">>) THEN "home"
  ELSE IF startsWith(fileName, <<"L", "O", "C", "A", "T", "I", "O", "N", "S", "_">>) THEN "locations"
  ELSE IF startsWith(fileName, <<"S", "E", "L", "L", "E", "R", "S", "_">>) THEN "sellers"
  ELSE "unknown"

detectFileType(fileName) ==
  LET upper == toUpperCase(IF fileName = NoName THEN EmptyName ELSE fileName)
  IN  IF startsWith(upper, <<"H", "O", "M", "E", "_">>) THEN "home"
      ELSE IF startsWith(upper, <<"L", "O", "C", "A", "T", "I", "O", "N", "S", "_">>) THEN "locations"
      ELSE IF startsWith(upper, <<"S", "E", "L", "L", "E", "R", "S", "_">>) THEN "sellers"
      ELSE "unknown"

(* ------------------------------- storage ------------------------------ *)
NoMeta == [name |-> EmptyName, updated |-> NoTime, content |-> NoSheets]

\* A faulty selection: the sort is ascending, the oldest object comes first.
Latest_Oldest(S) ==
  CHOOSE f \in S :
    /\ \A g \in S : meta[f].updated <= meta[g].updated
    /\ \A g \in S : meta[g].updated = meta[f].updated => f <= g

\* filesWithMeta.sort((a, b) => b.updated - a.updated)[0]: the sort is stable
\* and the listing is in name order, so among the newest the first name wins.
Latest(S) ==
  CHOOSE f \in S :
    /\ \A g \in S : meta[g].updated <= meta[f].updated
    /\ \A g \in S : meta[g].updated = meta[f].updated => f <= g

PortalStatuses == {200, 401, 403, 429, 500}

\* What a task keeps of the portal's answer: axios resolves on 2xx only, and
\* handleScheduledTaskError tells 401/403 from any other status.
portalAnswer(status) ==
  IF status = 200 THEN "ok"
  ELSE IF status = 401 \/ status = 403 THEN "auth"
  ELSE "transient"

(* ------------------------- published file names ---------------------- *)
\* OUTPUT_FILE_NAMES[fileType] || 'output.json'
outputFileName(fileType) ==
  IF fileType = "home" THEN "googlesheet.json"
  ELSE IF fileType = "locations" THEN "locations.json"
  ELSE IF fileType = "sellers" THEN "sellers.json"
  ELSE "output.json"

\* The account uploadFileToVtexPortal picks from the artifact's source file;
\* "env" is process.env.VTEX_ACCOUNT || 'promartrd'.
portalAccount(sourceFileName) ==
  LET upperSourceFile == toUpperCase(sourceFileName)
  IN  IF startsWith(upperSourceFile, <<"H","O","M","E","_","R","D","_">>) THEN "promartrd"
      ELSE IF startsWith(upperSourceFile, <<"H","O","M","E","_","P","R","D","_">>) THEN "promart"
      ELSE IF startsWith(upperSourceFile,
                <<"L","O","C","A","T","I","O","N","S","_","R","D","_">>) THEN "promartrd"
      ELSE IF startsWith(upperSourceFile,
                <<"L","O","C","A","T","I","O","N","S","_","P","R","D","_">>) THEN "promart"
      ELSE "env"

\* The prefix of the JSON copy's name under Publicaciones_json_vtex/.
filePrefix(fileType) ==
  IF fileType = "locations" THEN "locations"
  ELSE IF fileType = "sellers" THEN "sellers"
  ELSE "googleSheet"

\* `${filePrefix}_YYYYMMDD_HHMMSS.json`: the clock counts seconds.
destFileName(fileType, at) == [prefix |-> filePrefix(fileType), at |-> at]

(* -------------------------------- tasks ------------------------------- *)
\* The PUT a task sent to the portal: file name and account; none yet.
NoPut == [fileName |-> "none", account |-> "none"]

IdleTask ==
  [pc |-> "idle", kind |-> "none", exec |-> 0, file |-> NoFile, list |-> {},
   src |-> NoFile, rows |-> Undefined, portal |-> "none", pub |-> NoFile, resel |-> FALSE,
   fileType |-> "none", put |-> NoPut, stamp |-> NoTime]

NoArtifact == [file |-> NoFile, rows |-> Undefined]

Limits ==
  [runs |-> MaxRuns, files |-> MaxFiles, rows |-> MaxRows,
   clock |-> MaxClock, timers |-> MaxTimers, names |-> {HOME_RD_1}]

\* No transformation or delivery is being evaluated.
NoCalc == [fn |-> "none", done |-> FALSE]

\* The k-th activation of the pipeline runs as task k.
HasFree == nrun < lim.runs
FreeSlot == nrun + 1

\* The service after construction, no file deposited yet.
InitPipeline(l) ==
  /\ lim = l
  /\ ps = PsInit
  /\ sched = SchedInit
  /\ task = [t \in Tasks |-> IdleTask]
  /\ inbox = {}
  /\ archive = {}
  /\ copies = {}
  /\ meta = [f \in 1..l.files |-> NoMeta]
  /\ artifact = NoArtifact
  /\ latest = NoFile
  /\ now = 0
  /\ out = NoOut
  /\ processed = {}
  /\ nextId = 1
  /\ nrun = 0

InitWith(l) == InitPipeline(l) /\ calc = NoCalc

Init == InitWith(Limits)

\* The pipeline of task t goes on with its locals changed to rec.
Go(t, rec) ==
  /\ task' = [task EXCEPT ![t] = rec]
  /\ out' = NoOut
  /\ UNCHANGED <<ps, sched, processed>>

\* readExcelAndConvert of task t settles with r: the caller's continuation
\* (completeProcess, handleScheduledTaskError, the HTTP response) runs at once.
End(t, r) ==
  \E failedRecords \in FailedChoices(r) :
    LET e == cycleEnd(task[t].kind, r, failedRecords, ps, sched, now)
    IN  /\ ps' = e.ps
        /\ sched' = e.sched
        /\ out' = e.out
        /\ processed' = IF ~r.thrown /\ task[t].pub # NoFile /\ task[t].exec # 0
                          THEN processed \cup {[file |-> task[t].pub, exec |-> task[t].exec]}
                          ELSE processed
        /\ task' = [task EXCEPT ![t] = IdleTask]

(* ------------------------------ triggers ------------------------------ *)
\* executeScheduledTask up to its first await; s is the scheduler at the call.
executeScheduledTask(s) ==
  IF ~canStartNewProcess(ps)
    THEN /\ out' = [op |-> "auto", res |-> "skipped", code |-> 0]
         /\ sched' = s
         /\ UNCHANGED <<ps, task, nextId, nrun>>
    ELSE /\ HasFree
         /\ ps' = startProcess(ps, "auto", nextId, now)
         /\ sched' = [s EXCEPT !.lastExecution = now]
         /\ task' = [task EXCEPT ![FreeSlot] =
                       [IdleTask EXCEPT !.pc = "locate", !.kind = "auto", !.exec = nextId]]
         /\ nextId' = nextId + 1
         /\ nrun' = nrun + 1
         /\ out' = [op |-> "auto", res |-> "started", code |-> 0]

\* The cron job's callback.
CronFire ==
  /\ sched.cronJob
  /\ executeScheduledTask(sched)
  /\ UNCHANGED <<inbox, archive, copies, meta, artifact, latest, now, processed, lim, calc>>

\* The setTimeout callback of start() under RUN_ON_STARTUP.
StartupFire ==
  /\ sched.timers > 0
  /\ executeScheduledTask([sched EXCEPT !.timers = sched.timers - 1])
  /\ UNCHANGED <<inbox, archive, copies, meta, artifact, latest, now, processed, lim, calc>>

\* A faulty POST /api/force-update: it skips the isRunning test.
ForceUpdate_Unchecked ==
  /\ HasFree
  /\ ps' = startProcess(ps, "manual", nextId, now)
  /\ task' = [task EXCEPT ![FreeSlot] =
                [IdleTask EXCEPT !.pc = "locate", !.kind = "manual", !.exec = nextId]]
  /\ nextId' = nextId + 1
  /\ nrun' = nrun + 1
  /\ out' = [op |-> "manual", res |-> "started", code |-> 0]
  /\ UNCHANGED <<sched, inbox, archive, copies, meta, artifact, latest, now, processed, lim, calc>>

\* POST /api/force-update up to its first await.
ForceUpdate ==
  /\ IF ps.isRunning
       THEN /\ out' = [op |-> "manual", res |-> "rejected", code |-> 409]
            /\ UNCHANGED <<ps, task, nextId, nrun>>
       ELSE /\ HasFree
            /\ ps' = startProcess(ps, "manual", nextId, now)
            /\ task' = [task EXCEPT ![FreeSlot] =
                          [IdleTask EXCEPT !.pc = "locate", !.kind = "manual", !.exec = nextId]]
            /\ nextId' = nextId + 1
            /\ nrun' = nrun + 1
            /\ out' = [op |-> "manual", res |-> "started", code |-> 0]
  /\ UNCHANGED <<sched, inbox, archive, copies, meta, artifact, latest, now, processed, lim, calc>>

\* POST /api/test-excel up to its first await.
TestExcel ==
  /\ HasFree
  /\ task' = [task EXCEPT ![FreeSlot] = [IdleTask EXCEPT !.pc = "locate", !.kind = "test"]]
  /\ out' = [op |-> "test", res |-> "started", code |-> 0]
  /\ nrun' = nrun + 1
  /\ UNCHANGED <<ps, sched, nextId, inbox, archive, copies, meta, artifact, latest, now,
                 processed, lim, calc>>

(* ------------------------- scheduler start / stop --------------------- *)
Start ==
  /\ \E valid \in BOOLEAN, runOnStartup \in BOOLEAN :
       /\ runOnStartup => sched.timers < lim.timers
       /\ sched' = start(sched, valid, runOnStartup)
  /\ sched' # sched
  /\ out' = NoOut
  /\ UNCHANGED <<ps, task, inbox, archive, copies, meta, artifact, latest, now,
                 processed, nextId, nrun, lim, calc>>

Stop ==
  /\ sched.cronJob
  /\ LET st == stop(sched, ps, now) IN ps' = st.ps /\ sched' = st.sched
  /\ out' = NoOut
  /\ UNCHANGED <<task, inbox, archive, copies, meta, artifact, latest, now,
                 processed, nextId, nrun, lim, calc>>

(* ----------------------------- environment ---------------------------- *)
\* A new spreadsheet is uploaded to Archivos_sheets/.
Deposit ==
  /\ \E f \in 1..lim.files, n \in lim.names, c \in {NoSheets} \cup (0..lim.rows) :
       /\ meta[f].updated = NoTime
       /\ meta' = [meta EXCEPT ![f] = [name |-> n, updated |-> now, content |-> c]]
       /\ inbox' = inbox \cup {f}
  /\ out' = NoOut
  /\ UNCHANGED <<ps, sched, task, archive, copies, artifact, latest, now,
                 processed, nextId, nrun, lim, calc>>

Tick ==
  /\ now < lim.clock
  /\ now' = now + 1
  /\ out' = NoOut
  /\ UNCHANGED <<ps, sched, task, inbox, archive, copies, meta, artifact, latest,
                 processed, nextId, nrun, lim, calc>>

(* ------------------ readExcelAndConvert, one await at a time ---------- *)
StoreSame == UNCHANGED <<inbox, archive, copies, artifact, latest>>
EnvSame == UNCHANGED <<meta, now, nextId, nrun, lim, calc>>

\* A faulty locator: over an inbox without spreadsheets it lets the cycle go on
\* to the write of an artifact.
Locate_EmptyGoesOn(t) ==
  /\ task[t].pc = "locate"
  /\ \E ok \in BOOLEAN :
       IF ~ok THEN End(t, Throw(PlainError))
       ELSE IF inbox = {} THEN Go(t, [task[t] EXCEPT !.pc = "write", !.rows = 0])
       ELSE Go(t, [task[t] EXCEPT !.pc = "download",
                                  !.file = Latest(inbox),
                                  !.list = inbox \ {Latest(inbox)}])
  /\ StoreSame /\ EnvSame

\* getLatestExcelNameAndDownload: the listing and the choice of the newest.
Locate(t) ==
  /\ task[t].pc = "locate"
  /\ \E ok \in BOOLEAN :
       IF ~ok THEN End(t, Throw(PlainError))
       ELSE IF inbox = {} THEN End(t, Throw(PlainError))
       ELSE Go(t, [task[t] EXCEPT !.pc = "download",
                                  !.file = Latest(inbox),
                                  !.list = inbox \ {Latest(inbox)},
                                  !.resel = \E c \in processed :
                                              /\ c.file = Latest(inbox)
                                              /\ c.exec < task[t].exec])
  /\ StoreSame /\ EnvSame

\* downloadExcelFromGCP of the selected object.
Download(t) ==
  /\ task[t].pc = "download"
  /\ \E o \in (IF task[t].file \in inbox THEN {"ok", "error", "enoent"} ELSE {"error"}) :
       IF o = "ok" THEN Go(t, [task[t] EXCEPT !.pc = "purge"])
       ELSE IF o = "enoent" THEN End(t, Throw(EnoentError))
       ELSE End(t, Throw(PlainError))
  /\ StoreSame /\ EnvSame

\* The deletion of the other listed spreadsheets (each failure is caught), then
\* this._latestGcpExcelFile = bucketFilePath and detectFileType(latestFileName).
Purge(t) ==
  /\ task[t].pc = "purge"
  /\ \E D \in SUBSET (task[t].list \cap inbox) : inbox' = inbox \ D
  /\ latest' = task[t].file
  /\ Go(t, [task[t] EXCEPT !.pc = "transform", !.list = {},
                            !.fileType = detectFileType(meta[task[t].file].name)])
  /\ UNCHANGED <<archive, copies, artifact>> /\ EnvSame

\* validateExcelFileByPath, XLSX.readFile and the variant's transformation.
Transform(t) ==
  /\ task[t].pc = "transform"
  /\ IF meta[task[t].file].content = NoSheets
       THEN End(t, Throw(ExcelError))
       ELSE Go(t, [task[t] EXCEPT !.pc = "write", !.rows = meta[task[t].file].content])
  /\ StoreSame /\ EnvSame

\* A faulty write step: a failed writeFile is ignored and the publish follows.
Write_FallsThrough(t) ==
  /\ task[t].pc = "write"
  /\ \E ok \in BOOLEAN :
       /\ artifact' = IF ok THEN [file |-> task[t].file, rows |-> task[t].rows] ELSE artifact
       /\ Go(t, [task[t] EXCEPT !.pc = "publish"])
  /\ UNCHANGED <<inbox, archive, copies, latest>> /\ EnvSame

\* saveProcessedData: mkdir and writeFile of the local artifact.
Write(t) ==
  /\ task[t].pc = "write"
  /\ \E ok \in BOOLEAN :
       IF ok THEN /\ artifact' = [file |-> task[t].file, rows |-> task[t].rows]
                  /\ Go(t, [task[t] EXCEPT !.pc = "publish"])
       ELSE /\ artifact' = artifact
            /\ End(t, Throw(ExcelError))
  /\ UNCHANGED <<inbox, archive, copies, latest>> /\ EnvSame

\* A faulty publish step: a portal failure aborts saveProcessedData.
Publish_Abort(t) ==
  /\ task[t].pc = "publish"
  /\ \E status \in PortalStatuses :
       IF status = 200
         THEN Go(t, [task[t] EXCEPT !.pc = "archive", !.portal = "ok",
                                    !.pub = artifact.file, !.stamp = now])
         ELSE End(t, Throw(VtexError(status)))
  /\ StoreSame /\ EnvSame

\* uploadFileToVtexPortal: reads the artifact and PUTs it; any failure is false.
\* When it returns, the name of the JSON copy is computed from new Date().
Publish(t) ==
  /\ task[t].pc = "publish"
  /\ \E status \in PortalStatuses :
       Go(t, [task[t] EXCEPT !.pc = "archive", !.portal = portalAnswer(status),
                             !.pub = IF status = 200 THEN artifact.file ELSE NoFile,
                             !.put = [fileName |-> outputFileName(task[t].fileType),
                                      account |-> portalAccount(meta[artifact.file].name)],
                             !.stamp = now])
  /\ StoreSame /\ EnvSame

\* A faulty archive step: a failed upload of the JSON copy is rethrown.
Archive_Rethrows(t) ==
  /\ task[t].pc = "archive"
  /\ \E ok \in BOOLEAN :
       /\ copies' = IF ok THEN copies \cup {destFileName(task[t].fileType, task[t].stamp)}
                          ELSE copies
       /\ IF ok /\ latest # NoFile
            THEN Go(t, [task[t] EXCEPT !.pc = "copy", !.src = latest])
            ELSE End(t, Throw(PlainError))
  /\ UNCHANGED <<inbox, archive, artifact, latest>> /\ EnvSame

\* uploadJsonToGCP; on success srcPath = this._latestGcpExcelFile is read.
Archive(t) ==
  /\ task[t].pc = "archive"
  /\ \E ok \in BOOLEAN :
       /\ copies' = IF ok THEN copies \cup {destFileName(task[t].fileType, task[t].stamp)}
                          ELSE copies
       /\ IF ok /\ latest # NoFile
            THEN Go(t, [task[t] EXCEPT !.pc = "copy", !.src = latest])
            ELSE End(t, Return(task[t].rows))
  /\ UNCHANGED <<inbox, archive, artifact, latest>> /\ EnvSame

\* A faulty move: the delete follows the copy whether it succeeded or not.
Copy_FailedGoesOn(t) ==
  /\ task[t].pc = "copy"
  /\ \E ok \in (IF task[t].src \in inbox THEN BOOLEAN ELSE {FALSE}) :
       /\ archive' = IF ok THEN archive \cup {task[t].src} ELSE archive
       /\ Go(t, [task[t] EXCEPT !.pc = "delete"])
  /\ UNCHANGED <<inbox, copies, artifact, latest>> /\ EnvSame

\* moveFileInGCP: bucket.file(srcPath).copy(...)
Copy(t) ==
  /\ task[t].pc = "copy"
  /\ \E ok \in (IF task[t].src \in inbox THEN BOOLEAN ELSE {FALSE}) :
       IF ok THEN /\ archive' = archive \cup {task[t].src}
                  /\ Go(t, [task[t] EXCEPT !.pc = "delete"])
       ELSE /\ archive' = archive
            /\ End(t, Return(task[t].rows))
  /\ UNCHANGED <<inbox, copies, artifact, latest>> /\ EnvSame

\* moveFileInGCP: bucket.file(srcPath).delete()
Delete(t) ==
  /\ task[t].pc = "delete"
  /\ \E ok \in (IF task[t].src \in inbox THEN BOOLEAN ELSE {FALSE}) :
       IF ok THEN /\ inbox' = inbox \ {task[t].src}
                  /\ Go(t, [task[t] EXCEPT !.pc = "cleanList"])
       ELSE /\ inbox' = inbox
            /\ End(t, Return(task[t].rows))
  /\ UNCHANGED <<archive, copies, artifact, latest>> /\ EnvSame

\* The cleanup's getFiles({prefix: 'Archivos_sheets/'}).
CleanList(t) ==
  /\ task[t].pc = "cleanList"
  /\ \E ok \in BOOLEAN :
       IF ok THEN Go(t, [task[t] EXCEPT !.pc = "cleanDelete", !.list = inbox])
       ELSE End(t, Return(task[t].rows))
  /\ StoreSame /\ EnvSame

\* The cleanup's Promise.all of file.delete(); a failure is caught and logged.
CleanDelete(t) ==
  /\ task[t].pc = "cleanDelete"
  /\ \E D \in SUBSET (task[t].list \cap inbox) : inbox' = inbox \ D
  /\ End(t, Return(task[t].rows))
  /\ UNCHANGED <<archive, copies, artifact, latest>> /\ EnvSame

Step(t) ==
  \/ Locate(t) \/ Download(t) \/ Purge(t) \/ Transform(t) \/ Write(t) \/ Publish(t)
  \/ Archive(t) \/ Copy(t) \/ Delete(t) \/ CleanList(t) \/ CleanDelete(t)

Next ==
  \/ CronFire \/ StartupFire \/ ForceUpdate \/ TestExcel
  \/ Start \/ Stop \/ Deposit \/ Tick
  \/ \E t \in Tasks : Step(t)

Spec == Init /\ [][Next]_vars

(* ---------------------------- properties ------------------------------ *)
Terminal == {"completed", "failed", "cancelled"}
Active == {t \in Tasks : task[t].pc # "idle"}
AfterWrite == {"publish", "archive", "copy", "delete", "cleanList", "cleanDelete"}

\* Task t's readExcelAndConvert settles in this step and its caller finishes.
Ends(t) == task[t].pc # "idle" /\ task'[t].pc = "idle"

\* Task t runs the execution the status tracker holds as running.
Current(t) ==
  /\ task[t].kind \in {"auto", "manual"}
  /\ ps.isRunning
  /\ ps.lastExecution.id = task[t].exec

InHistory(e) ==
  \E i \in DOMAIN ps.executionHistory : ps.executionHistory[i].id = e

\* C1: a spreadsheet that a finished cycle transformed and published is never
\* selected and transformed again by a later automatic or manual cycle.
C1_ConsumedAtMostOnce ==
  \A t \in Tasks :
    ~(task[t].kind \in {"auto", "manual"} /\ task[t].resel /\ task[t].rows # Undefined)

\* C2: at most one run of the pipeline is in progress at any time.
C2_SingleRun == Cardinality(Active) <= 1

\* C3: a force-update request handled while isRunning is true answers 409 and
\* changes neither the status tracker nor any task nor the scheduler nor storage.
C3_ManualConflict ==
  [][(ps.isRunning /\ out'.op = "manual" /\ out'.res \in {"started", "rejected"})
       => /\ out'.code = 409
          /\ ps' = ps
          /\ task' = task
          /\ UNCHANGED <<sched, nextId, inbox, archive, artifact, latest>>]_vars

C3_Witness == ps.isRunning /\ out.op = "manual" /\ out.code = 409

\* C4: an automatic trigger handled while isRunning is true starts nothing and
\* leaves the status tracker (isRunning, lastExecution, history) as it was.
C4_AutoSkip ==
  [][(ps.isRunning /\ out'.op = "auto")
       => /\ out'.res = "skipped"
          /\ ps' = ps
          /\ task' = task
          /\ UNCHANGED <<nextId, inbox, archive, artifact, latest>>]_vars

C4_Witness == ps.isRunning /\ out.op = "auto" /\ out.res = "skipped"

\* C5: no execution has two entries in the execution history.
C5_OneEntryPerExecution ==
  \A i, j \in DOMAIN ps.executionHistory :
    ps.executionHistory[i].id = ps.executionHistory[j].id => i = j

\* C6: a cycle that ends after its transformation and local write succeeded
\* leaves its execution completed with recordsProcessed = the transformed rows.
C6_CompletedWithCount ==
  [][\A t \in Tasks :
       (Ends(t) /\ Current(t) /\ task[t].pc \in AfterWrite)
         => /\ ps'.lastExecution.status = "completed"
            /\ ps'.lastExecution.recordsProcessed = task[t].rows]_vars

\* C7: when an automatic cycle whose publish was answered 401 or 403 ends
\* failed, the scheduler is stopped.
C7_AuthStopsScheduler ==
  [][\A t \in Tasks :
       (Ends(t) /\ Current(t) /\ task[t].kind = "auto" /\ sched.cronJob
          /\ task[t].portal = "auth" /\ ps'.lastExecution.status = "failed")
         => ~sched'.cronJob]_vars

\* The causes the scheduler is to survive: destination 429/5xx, an Excel error,
\* no candidate file.
TransientEnd(t) ==
  \/ task[t].portal = "transient"
  \/ task[t].pc = "locate" /\ inbox = {}
  \/ task[t].pc = "transform" /\ meta[task[t].file].content = NoSheets

\* C8: when an automatic cycle ends on a transient cause, its own execution is
\* on record as failed, nothing is running and the scheduler is as it was.
C8_TransientKeepsScheduler ==
  [][\A t \in Tasks :
       (Ends(t) /\ task[t].kind = "auto" /\ TransientEnd(t))
         => /\ \E i \in DOMAIN ps'.executionHistory :
                 /\ ps'.executionHistory[i].id = task[t].exec
                 /\ ps'.executionHistory[i].status = "failed"
            /\ canStartNewProcess(ps')
            /\ sched'.cronJob = sched.cronJob]_vars

C10_TerminalIsFinal ==
  [][(ps.lastExecution.status \in Terminal
        /\ ps'.lastExecution.id = ps.lastExecution.id)
       => ps'.lastExecution = ps.lastExecution]_vars

(* --------------------- the pipeline under fair scheduling ------------- *)
LiveRuns == 1

LiveLimits == [Limits EXCEPT !.runs = LiveRuns]

\* Every pending await of readExcelAndConvert settles: it returns or throws.
SpecLive ==
  /\ InitWith(LiveLimits)
  /\ [][Next]_vars
  /\ \A t \in Tasks : WF_vars(Step(t))

(* ------------------- a service with a long execution history ---------- *)
\* The status tracker after n automatic cycles that each ran to its end; as
\* the cycles of this service do, each ended in sendData's validation error.
RECURSIVE After(_)
After(n) ==
  IF n = 0 THEN PsInit
  ELSE CHOOSE q \in {completeProcess(startProcess(p, "auto", n, 0),
                                     0, ValidationError, "null", 0) :
                       p \in {After(n - 1)}} : TRUE

InitAfter(l, n) ==
  /\ lim = l
  /\ ps = After(n)
  /\ sched = SchedInit
  /\ task = [t \in Tasks |-> IdleTask]
  /\ inbox = {}
  /\ archive = {}
  /\ copies = {}
  /\ meta = [f \in 1..l.files |-> NoMeta]
  /\ artifact = NoArtifact
  /\ latest = NoFile
  /\ now = 0
  /\ out = NoOut
  /\ processed = {}
  /\ nextId = n + 1
  /\ nrun = 0
  /\ calc = NoCalc

SpecHistory ==
  /\ \E n \in {maxHistorySize - 1, maxHistorySize} : InitAfter(LiveLimits, n)
  /\ [][Next]_vars

\* C11: the history never holds more than maxHistorySize entries, and a step
\* that changes it appends lastExecution at the end, dropping the oldest entry
\* exactly when the history was full.
C11_HistoryBounded ==
  [][LET h  == ps.executionHistory
         h2 == ps'.executionHistory
     IN  /\ Len(h2) <= maxHistorySize
         /\ h2 # h =>
              h2 = (IF Len(h) = maxHistorySize THEN Tail(h) ELSE h)
                     \o <<ps'.lastExecution>>]_vars

C11_Witness ==
  /\ Len(ps.executionHistory) = maxHistorySize
  /\ ps.executionHistory[1].id = 2
  /\ ps.executionHistory[maxHistorySize].id = maxHistorySize + 1

(* ------------------------ the publisher's cycle ----------------------- *)
\* C12: a cycle that wrote the local artifact ends with its selected
\* spreadsheet in Publicaciones_json_vtex/ and no spreadsheet left in
\* Archivos_sheets/.
C12_RetiredAtEnd ==
  [][\A t \in Tasks :
       Ends(t) /\ task[t].pc \in AfterWrite =>
         /\ task[t].file \in archive'
         /\ inbox' = {}]_vars

\* C13: when the portal publish of a written artifact settles, whatever the
\* portal answered, the cycle goes on to the upload of the JSON copy with the
\* artifact and the bucket as they were; from there a successful upload adds
\* the copy and goes on to the move of the source, also after a failed publish.
C13_PublishFailureGoesOn ==
  [][\A t \in Tasks :
       /\ task[t].pc = "publish" /\ task'[t].pc # "publish" =>
            /\ task'[t].pc = "archive"
            /\ task'[t].portal \in {"ok", "auth", "transient"}
            /\ artifact' = artifact /\ artifact.file # NoFile
            /\ inbox' = inbox /\ archive' = archive /\ copies' = copies
       /\ task[t].pc = "archive" /\ task'[t].pc # "archive" =>
            /\ artifact' = artifact
            /\ task'[t].pc \in {"copy", "idle"}
            /\ task'[t].pc = "copy" =>
                 destFileName(task[t].fileType, task[t].stamp) \in copies']_vars

C13_Witness ==
  \E t \in Tasks :
    /\ task[t].portal \in {"auth", "transient"}
    /\ task[t].pc = "cleanDelete"
    /\ artifact.file = task[t].file
    /\ task[t].file \in archive /\ task[t].file \notin inbox
    /\ copies # {}

\* C14: a cycle reaches the portal publish only from a successful write of its
\* artifact, the upload of the JSON copy only from the publish, and the move of
\* the source only from that upload; a cycle whose write fails ends there, with
\* nothing sent to the portal, the bucket and the artifact as they were, and
\* the execution failed with the write's error.
C14_PublisherOrder ==
  [][\A t \in Tasks :
       /\ task'[t].pc = "publish" /\ task[t].pc # "publish" =>
            /\ task[t].pc = "write"
            /\ artifact' = [file |-> task[t].file, rows |-> task[t].rows]
            /\ task[t].put = NoPut /\ task[t].src = NoFile
       /\ task'[t].pc = "archive" /\ task[t].pc # "archive" =>
            /\ task[t].pc = "publish"
            /\ task'[t].put # NoPut /\ task[t].src = NoFile
       /\ task'[t].pc = "copy" /\ task[t].pc # "copy" =>
            /\ task[t].pc = "archive" /\ task[t].put # NoPut
       /\ task'[t].pc = "delete" /\ task[t].pc # "delete" => task[t].pc = "copy"
       /\ task'[t].pc = "cleanList" /\ task[t].pc # "cleanList" => task[t].pc = "delete"
       /\ task'[t].pc = "cleanDelete" /\ task[t].pc # "cleanDelete" =>
            task[t].pc = "cleanList"
       /\ task[t].pc = "write" /\ task'[t].pc # "write" /\ task'[t].pc # "publish" =>
            /\ task'[t].pc = "idle"
            /\ task[t].put = NoPut /\ task[t].src = NoFile
            /\ artifact' = artifact /\ inbox' = inbox
            /\ archive' = archive /\ copies' = copies
            /\ Current(t) => /\ ps'.lastExecution.status = "failed"
                             /\ ps'.lastExecution.error = serializeError(ExcelError)
                             /\ ~ps'.isRunning
            /\ task[t].kind \in {"manual", "test"} => out'.code = 500]_vars

\* One cycle, of a spreadsheet that has sheets, ended by the failed write.
C14_Witness ==
  /\ nrun = 1 /\ Active = {}
  /\ meta[1].updated # NoTime /\ meta[1].content # NoSheets
  /\ ps.lastExecution.status = "failed"
  /\ ps.lastExecution.error = serializeError(ExcelError)
  /\ out.code = 500
  /\ artifact = NoArtifact /\ inbox = {1} /\ archive = {} /\ copies = {}

\* C15: a cycle whose JSON copy is uploaded writes it under a name no earlier
\* cycle has written in Publicaciones_json_vtex/.
C15_FreshCopyName ==
  [][\A t \in Tasks :
       task[t].pc = "archive" /\ task'[t].pc = "copy" =>
         destFileName(task[t].fileType, task[t].stamp) \notin copies]_vars

(* --------------------------- the source locator ----------------------- *)
\* One cycle at a time over an inbox of up to StoreFiles spreadsheets.
StoreFiles == 2
StoreLimits == [LiveLimits EXCEPT !.files = StoreFiles]

SpecStore == InitWith(StoreLimits) /\ [][Next]_vars

\* C16: the object a cycle selects is in the listing and none of the listed
\* spreadsheets was updated later, and it is the one downloaded; over an inbox
\* without spreadsheets the cycle ends in the locator with an error, nothing
\* downloaded and the inbox as it was.
C16_NewestSelected ==
  [][\A t \in Tasks :
       /\ task[t].pc = "locate" /\ task'[t].pc = "download" =>
            /\ inbox # {}
            /\ task'[t].file \in inbox
            /\ \A g \in inbox : meta[g].updated <= meta[task'[t].file].updated
            /\ task'[t].list = inbox \ {task'[t].file}
            /\ inbox' = inbox
       /\ task[t].pc = "download" /\ task'[t].pc = "purge" =>
            /\ task'[t].file = task[t].file
            /\ inbox' = inbox
       /\ task[t].pc = "locate" /\ inbox = {} /\ task'[t] # task[t] =>
            /\ task'[t].pc = "idle"
            /\ inbox' = inbox /\ archive' = archive /\ latest' = latest
            /\ Current(t) => /\ ps'.lastExecution.status = "failed"
                             /\ ps'.lastExecution.error = serializeError(PlainError)
            /\ task[t].kind \in {"manual", "test"} => out'.code = 500]_vars

\* The newer of two listed spreadsheets is selected, and it is not the first listed.
C16_Witness ==
  \E t \in Tasks :
    /\ task[t].pc = "download"
    /\ task[t].file = 2 /\ task[t].list = {1}
    /\ meta[1].updated < meta[2].updated

\* C17: when the locator returns and the transformation is about to begin,
\* none of the other listed spreadsheets is left in the inbox and the selected
\* one is; the step that ends a cycle in the transformation brings none back.
C17_SiblingsPurged ==
  [][\A t \in Tasks :
       /\ task[t].pc = "purge" /\ task'[t].pc = "transform" =>
            /\ task[t].list \cap inbox' = {}
            /\ task[t].file \in inbox'
       /\ task[t].pc = "transform" /\ task'[t].pc = "idle" => inbox' = inbox]_vars

(* -------------------------- the variant classifier -------------------- *)
\* One cycle at a time over a spreadsheet of any of the names.
NameLimits == [LiveLimits EXCEPT !.names = SourceNames]

SpecNames == InitWith(NameLimits) /\ [][Next]_vars

\* The lower-case spelling of each letter of the three prefixes.
LowerOf ==
  [H |-> "h", O |-> "o", M |-> "m", E |-> "e", L |-> "l", C |-> "c", A |-> "a",
   T |-> "t", I |-> "i", N |-> "n", S |-> "s", R |-> "r"]

Spellings(c) == {c} \cup (IF c \in DOMAIN LowerOf THEN {LowerOf[c]} ELSE {})

\* name begins with prefix, letter case aside.
Begins(name, prefix) ==
  /\ Len(name) >= Len(prefix)
  /\ \A i \in 1..Len(prefix) : name[i] \in Spellings(prefix[i])

Variant(name) ==
  IF Begins(name, <<"H", "O", "M", "E", "_">>) THEN "home"
  ELSE IF Begins(name, <<"L", "O", "C", "A", "T", "I", "O", "N", "S", "_">>) THEN "locations"
  ELSE IF Begins(name, <<"S", "E", "L", "L", "E", "R", "S", "_">>) THEN "sellers"
  ELSE "unknown"

\* C18: detectFileType gives every name one of the four variants: home for a
\* name beginning with HOME_ in any letter case, else locations for
\* LOCATIONS_, else sellers for SELLERS_, else unknown, as for the empty and
\* the missing name; the variant a cycle holds is that of its spreadsheet.
C18_Classified ==
  /\ detectFileType(EmptyName) = "unknown"
  /\ detectFileType(NoName) = "unknown"
  /\ \A f \in DOMAIN meta :
       meta[f].updated # NoTime =>
         /\ detectFileType(meta[f].name) = Variant(meta[f].name)
         /\ detectFileType(toUpperCase(meta[f].name)) = detectFileType(meta[f].name)
  /\ \A t \in Tasks :
       task[t].fileType # "none" =>
         task[t].fileType = Variant(meta[task[t].file].name)

C18_Witness ==
  \E t \in Tasks :
    /\ task[t].pc = "transform"
    /\ meta[task[t].file].name = locations_prd_2
    /\ task[t].fileType = "locations"

(* --------------------------- the published name ----------------------- *)
\* C19: the PUT a cycle sends to the portal names the file googlesheet.json
\* for a home spreadsheet, locations.json for locations, sellers.json for
\* sellers, and googlesheet.json again for a spreadsheet of unknown variant.
C19_PublishedName ==
  \A t \in Tasks :
    task[t].put # NoPut =>
      task[t].put.fileName =
        (IF task[t].fileType = "locations" THEN "locations.json"
         ELSE IF task[t].fileType = "sellers" THEN "sellers.json"
         ELSE "googlesheet.json")

(* ------------------------------ cancellation -------------------------- *)
CancelReasons == {"Manual cancellation", "Servicio detenido"}

\* cancelProcess(reason) called now: what the claim says of its result.
CancelledAsStated(reason) ==
  LET c == cancelProcess(ps, reason, now)
      e == c.lastExecution
  IN  IF ps.isRunning
        THEN /\ cancelProcessReturns(ps)
             /\ e.id = ps.lastExecution.id
             /\ e.trigger = ps.lastExecution.trigger
             /\ e.startedAt = ps.lastExecution.startedAt
             /\ e.status = "cancelled"
             /\ e.error.message = reason /\ e.error.type = "CANCELLATION"
             /\ e.endedAt = now
             /\ e.duration = now - ps.lastExecution.startedAt
             /\ ~c.isRunning
             /\ Len(ps.executionHistory) < maxHistorySize =>
                  c.executionHistory = Append(ps.executionHistory, e)
        ELSE /\ ~cancelProcessReturns(ps)
             /\ c = ps

\* C20: cancelProcess on a running execution makes it cancelled with the
\* reason as its error, stamps endedAt and duration, clears isRunning and
\* appends it to the history, and with nothing running it returns false and
\* changes nothing; a stop() of the scheduler while an execution runs leaves
\* that execution cancelled in this way, in the history, and the cron job gone.
C20_CancelOnStop ==
  /\ [](\A reason \in CancelReasons : CancelledAsStated(reason))
  /\ [][sched.cronJob /\ ~sched'.cronJob /\ task' = task =>
          /\ ~sched'.isRunning
          /\ ps' = cancelProcess(ps, "Servicio detenido", now)
          /\ ps.isRunning =>
               /\ ~ps'.isRunning
               /\ ps'.lastExecution.id = ps.lastExecution.id
               /\ ps'.lastExecution.status = "cancelled"
               /\ ps'.lastExecution.error.message = "Servicio detenido"
               /\ ps'.lastExecution.endedAt = now
               /\ ps'.executionHistory = Append(ps.executionHistory, ps'.lastExecution)
          /\ ~ps.isRunning => ps' = ps]_vars

\* The scheduler was stopped while a cycle ran: its execution is cancelled and
\* in the history, the cycle itself is still going on.
C20_Witness ==
  /\ ~sched.cronJob
  /\ ~ps.isRunning
  /\ ps.lastExecution.status = "cancelled"
  /\ ps.lastExecution.error.message = "Servicio detenido"
  /\ InHistory(ps.lastExecution.id)
  /\ \E t \in Tasks : task[t].pc # "idle" /\ task[t].exec = ps.lastExecution.id

(* --------------------------- the status tracker ----------------------- *)
\* C21: the entries of the execution history carry as many different ids as
\* there are entries, every one an id that startProcess has issued.
C21_UniqueIds ==
  LET h == ps.executionHistory
  IN  /\ Cardinality({h[i].id : i \in DOMAIN h}) = Len(h)
      /\ \A i \in DOMAIN h : h[i].id \in 1..(nextId - 1)

\* C22: when a manual cycle ends in an error, the execution that cycle started
\* is lastExecution, failed, with that error, the tracker is idle and the
\* route answers with the error's status; when an automatic cycle ends in an
\* error nothing is answered and its execution is failed in lastExecution and
\* in the history.
C22_ErrorRecorded ==
  [][\A t \in Tasks :
       /\ (Ends(t) /\ task[t].kind = "manual" /\ out'.code # 200) =>
            /\ ps'.lastExecution.id = task[t].exec
            /\ ps'.lastExecution.status = "failed"
            /\ ps'.lastExecution.error # NullError
            /\ httpStatus(ps'.lastExecution.error) = out'.code
            /\ ~ps'.isRunning
       /\ (Ends(t) /\ task[t].kind = "auto"
             /\ ps'.lastExecution.status = "failed") =>
            /\ out' = NoOut
            /\ ps'.lastExecution.id = task[t].exec
            /\ \E i \in DOMAIN ps'.executionHistory :
                 ps'.executionHistory[i].id = task[t].exec]_vars

\* C23: a cycle that lists an inbox without spreadsheets ends there: the
\* artifact, the inbox, the archive and its JSON copies are as they were, no
\* PUT was sent, the scheduler is untouched, and for an automatic or manual
\* cycle lastExecution is failed with the tracker idle.
C23_EmptyInboxNoOutput ==
  [][\A t \in Tasks :
       (task[t].pc = "locate" /\ inbox = {} /\ task'[t] # task[t]) =>
         /\ task'[t].pc = "idle"
         /\ task[t].put = NoPut /\ task[t].pub = NoFile
         /\ artifact' = artifact /\ inbox' = inbox /\ latest' = latest
         /\ archive' = archive /\ copies' = copies
         /\ sched' = sched
         /\ task[t].kind \in {"auto", "manual"} =>
              /\ ps'.lastExecution.status = "failed"
              /\ ps'.lastExecution.error = serializeError(PlainError)
              /\ ~ps'.isRunning
         /\ task[t].kind = "test" => ps' = ps]_vars

\* One cycle over a bucket nothing was ever uploaded to, ended failed.
C23_Witness ==
  /\ nrun = 1 /\ Active = {}
  /\ \A f \in DOMAIN meta : meta[f].updated = NoTime
  /\ ps.lastExecution.status = "failed"
  /\ ps.lastExecution.error = serializeError(PlainError)
  /\ artifact = NoArtifact /\ archive = {} /\ copies = {}

(* ---------------------------- the inbox cleanup ----------------------- *)
\* C24: a cycle deletes from the inbox a spreadsheet other than the one it
\* selected only if the selected one was updated at least as late.
C24_CleanupKeepsNewer ==
  [][\A t \in Tasks : \A g \in inbox \ inbox' :
       (task'[t] # task[t] /\ g # task[t].file) =>
         meta[g].updated <= meta[task[t].file].updated]_vars

(* ------------------------ storage lifecycle failures ------------------ *)
AfterPublish == {"archive", "copy", "delete", "cleanList", "cleanDelete"}

\* C25: a cycle that ends in the upload of the JSON copy, in the move of the
\* source or in the cleanup, whether that step failed or not, hands its
\* dataset to the caller: tracker, scheduler and answer are what the caller
\* makes of the returned dataset, and the error it records, if any, is the one
\* of the caller's own statements, never one of the bucket.
C25_StorageFailureLogged ==
  [][\A t \in Tasks :
       (Ends(t) /\ task[t].pc \in AfterPublish) =>
         /\ \E failedRecords \in FailedChoices(Return(task[t].rows)) :
              LET e == cycleEnd(task[t].kind, Return(task[t].rows), failedRecords,
                                ps, sched, now)
              IN  ps' = e.ps /\ sched' = e.sched /\ out' = e.out
         /\ task[t].kind \in {"auto", "manual"} =>
              ps'.lastExecution.error \in {NullError, serializeError(ValidationError)}
         /\ task[t].kind = "manual" => out'.code \in {200, 400}]_vars

\* One cycle whose upload of the JSON copy failed: the artifact is written, no
\* copy is stored, the spreadsheet is still in the inbox, and the only error
\* recorded is sendData's.
C25_Witness ==
  /\ nrun = 1 /\ Active = {}
  /\ artifact.file = 1 /\ copies = {} /\ archive = {} /\ inbox = {1}
  /\ ps.lastExecution.error = serializeError(ValidationError)

(* -------------------- completeProcess and startProcess ---------------- *)
CompletionErrors == {NullError, PlainError, EnoentError, ExcelError, ValidationError}
CompletionCounts == {0, 1, 2}

\* completeProcess(recordsProcessed, error) called now: what the claim says.
CompletedAsStated(recordsProcessed, error) ==
  LET c == completeProcess(ps, recordsProcessed, error, "null", now)
      e == c.lastExecution
  IN  ps.lastExecution # NoExecution =>
        /\ e.status = (IF error = NullError THEN "completed" ELSE "failed")
        /\ e.recordsProcessed = recordsProcessed
        /\ e.endedAt = now
        /\ e.duration = e.endedAt - ps.lastExecution.startedAt
        /\ e.duration >= 0
        /\ e.id = ps.lastExecution.id

StartTriggers == {"auto", "manual", "api"}

\* startProcess(trigger) called now on an idle tracker: what the claim says.
StartedAsStated(trigger) ==
  LET s == startProcess(ps, trigger, nextId, now)
  IN  ~ps.isRunning =>
        /\ s.isRunning
        /\ s.lastExecution =
             [id |-> nextId, trigger |-> trigger, startedAt |-> now,
              endedAt |-> NoTime, status |-> "running", recordsProcessed |-> 0,
              error |-> NullError, vtexResponse |-> "null", duration |-> NoTime]
        /\ s.lastExecution.id # ps.lastExecution.id
        /\ s.executionHistory = ps.executionHistory

\* C27: startProcess on an idle tracker sets isRunning and makes lastExecution
\* a new execution, running, with no records, no error and no end, and the
\* history is the same; so does every step that takes the tracker from idle
\* to running.
C27_StartFromIdle ==
  /\ [](\A trigger \in StartTriggers : StartedAsStated(trigger))
  /\ [][(~ps.isRunning /\ ps'.isRunning) =>
          /\ ps'.lastExecution.id = nextId /\ nextId' = nextId + 1
          /\ ps'.lastExecution.id # ps.lastExecution.id
          /\ ps'.lastExecution.trigger \in {"auto", "manual"}
          /\ ps'.lastExecution.status = "running"
          /\ ps'.lastExecution.startedAt = now
          /\ ps'.lastExecution.recordsProcessed = 0
          /\ ps'.lastExecution.error = NullError
          /\ ps'.lastExecution.endedAt = NoTime
          /\ ps'.executionHistory = ps.executionHistory]_vars

\* The second execution has been started after the first ended.
C27_Witness ==
  /\ ps.isRunning
  /\ ps.lastExecution.id = 2
  /\ ps.lastExecution.status = "running"
  /\ Len(ps.executionHistory) = 1
  /\ ps.executionHistory[1].id = 1

(* ------------------------ whose execution is finalized ---------------- *)
\* C28: the end of an automatic or manual cycle changes the tracker only if
\* lastExecution is the execution that cycle started.
C28_FinalizesOwnExecution ==
  [][\A t \in Tasks :
       (Ends(t) /\ task[t].kind \in {"auto", "manual"} /\ ps' # ps) =>
         ps.lastExecution.id = task[t].exec]_vars

(* ------------------------- the move of the source --------------------- *)
Moving == {"delete", "cleanList", "cleanDelete"}

C30_FlagMatchesStatus ==
  /\ ps.isRunning <=>
       (ps.lastExecution # NoExecution /\ ps.lastExecution.status = "running")
  /\ ~ps.isRunning =>
       (ps.lastExecution = NoExecution \/ ps.lastExecution.status \in Terminal)
  /\ ps.lastExecution # NoExecution =>
       ps.lastExecution.status \in Terminal \cup {"running"}

\* The tracker is idle with a failed lastExecution whose own cycle is still
\* running: an earlier, cancelled cycle has finalized it.
C30_Witness ==
  /\ ~ps.isRunning
  /\ ps.lastExecution.status = "failed"
  /\ \E t \in Tasks : task[t].pc # "idle" /\ task[t].exec = ps.lastExecution.id

(* ------------------------------ statistics ---------------------------- *)
\* C31: every entry of the execution history is completed, failed or
\* cancelled and has endedAt and duration set, and calculateStats counts as
\* many executions as the history holds, which is the sum of its successful,
\* failed and cancelled counts.
C31_HistoryTerminal ==
  LET stats == calculateStats(ps.executionHistory)
  IN  /\ \A i \in DOMAIN ps.executionHistory :
           /\ ps.executionHistory[i].status \in Terminal
           /\ ps.executionHistory[i].endedAt # NoTime
           /\ ps.executionHistory[i].duration # NoTime
      /\ stats.totalExecutions = Len(ps.executionHistory)
      /\ stats.totalExecutions =
           stats.successfulExecutions + stats.failedExecutions + stats.cancelledExecutions

\* The history holds a cancelled and a failed entry.
C31_Witness ==
  LET stats == calculateStats(ps.executionHistory)
  IN  /\ stats.cancelledExecutions = 1
      /\ stats.failedExecutions = 1
      /\ stats.totalExecutions = 2

(* ------------------------------ the scheduler ------------------------- *)
\* C32: the scheduler's isRunning flag is set exactly when it holds a cron
\* job; start() on a started scheduler and stop() on a stopped one change
\* nothing, and start() with a pattern that is not valid throws and changes
\* nothing.
C32_SchedulerFlag ==
  /\ sched.isRunning <=> sched.cronJob
  /\ \A valid \in BOOLEAN, runOnStartup \in BOOLEAN :
       /\ sched.cronJob =>
            /\ start(sched, valid, runOnStartup) = sched
            /\ ~startThrows(sched, valid)
       /\ (~sched.cronJob /\ ~valid) =>
            /\ startThrows(sched, valid)
            /\ start(sched, valid, runOnStartup) = sched
       /\ (~sched.cronJob /\ valid) =>
            /\ ~startThrows(sched, valid)
            /\ start(sched, valid, runOnStartup).cronJob
            /\ start(sched, valid, runOnStartup).isRunning
  /\ ~sched.cronJob => stop(sched, ps, now) = [sched |-> sched, ps |-> ps]
  /\ sched.cronJob =>
       /\ ~stop(sched, ps, now).sched.cronJob
       /\ ~stop(sched, ps, now).sched.isRunning

\* The scheduler was started, fired its cron job and was stopped, with an
\* execution left running by a manual trigger that stop() can no longer cancel.
C32_Witness ==
  /\ ~sched.cronJob /\ ~sched.isRunning
  /\ sched.lastExecution # NoTime
  /\ ps.isRunning

(* --------------------------- the transformations ---------------------- *)
\* A cell or a header is a string, written as the tuple of its characters;
\* the strings here are made of letters and blanks. null is no string.
Null == <<"null">>

RECURSIVE trimStart(_)
trimStart(str) ==
  IF str # <<>> /\ Head(str) = " " THEN trimStart(Tail(str)) ELSE str

RECURSIVE trimEnd(_)
trimEnd(str) ==
  IF str # <<>> /\ str[Len(str)] = " "
    THEN trimEnd(SubSeq(str, 1, Len(str) - 1))
    ELSE str

\* String.prototype.trim
trim(str) == trimEnd(trimStart(str))

\* String.prototype.toLowerCase, on the letters of the headers below.
LowerCaseOf == [X |-> "x", Y |-> "y"]

toLowerCase(str) ==
  [i \in DOMAIN str |->
     IF str[i] \in DOMAIN LowerCaseOf THEN LowerCaseOf[str[i]] ELSE str[i]]

\* replace(/\s+/g, '_')
RECURSIVE underscored(_)
underscored(str) ==
  IF str = <<>> THEN <<>>
  ELSE IF Head(str) = " " THEN <<"_">> \o underscored(trimStart(Tail(str)))
  ELSE <<Head(str)>> \o underscored(Tail(str))

\* cleanHeaderName; a header of letters and blanks holds no special character
\* and, once trimmed and underscored, no run of underscores and none at an end.
cleanHeaderName(header) == underscored(toLowerCase(trim(header)))

\* A faulty isValidRow: a cell of blanks counts as data.
isValidRow_BlankCounts(row) == \E i \in 1..Len(row) : row[i] # <<>>

\* isValidRow: sheet_to_json with defval '' leaves no null or undefined cell.
isValidRow(row) == \E i \in 1..Len(row) : row[i] # <<>> /\ trim(row[i]) # <<>>

\* processCellValue of a string cell that is no number, under a header that
\* names no date.
processCellValue(value, header) == IF value = <<>> THEN Null ELSE trim(value)

\* processRow: the object built from the columns with a non-blank header; a
\* later column of the same clean name overwrites the earlier one.
processRow(headers, row, rowNumber, sheetName) ==
  LET cols == {i \in 1..Len(headers) : headers[i] # <<>> /\ trim(headers[i]) # <<>>}
      last(n) == CHOOSE i \in cols :
                   /\ cleanHeaderName(headers[i]) = n
                   /\ \A j \in cols : cleanHeaderName(headers[j]) = n => j <= i
  IN  [sourceSheet |-> sheetName, sourceRow |-> rowNumber,
       fields |-> [n \in {cleanHeaderName(headers[i]) : i \in cols} |->
                     processCellValue(row[last(n)], headers[last(n)])]]

\* dataRows.filter(isValidRow): the positions in rawData of the rows kept.
RECURSIVE validRows(_, _)
validRows(rawData, i) ==
  IF i > Len(rawData) THEN <<>>
  ELSE (IF isValidRow(rawData[i]) THEN <<i>> ELSE <<>>) \o validRows(rawData, i + 1)

\* processRawData; throws holds the positions of the rows on which processRow
\* throws. The row number handed to processRow is the index among the kept
\* rows plus 2.
processRawData(rawData, sheetName, throws) ==
  IF Len(rawData) < 2 THEN <<>>
  ELSE LET kept == validRows(rawData, 2)
           mapped == [k \in 1..Len(kept) |->
                        IF kept[k] \in throws
                          THEN [null |-> TRUE, row |-> kept[k]]
                          ELSE [null |-> FALSE, row |-> kept[k]]]
           passed == SelectSeq(mapped, LAMBDA m : ~m.null)
           place(k) == CHOOSE j \in 1..Len(kept) : kept[j] = passed[k].row
       IN  [k \in 1..Len(passed) |->
              processRow(rawData[1], rawData[passed[k].row], place(k) + 1, sheetName)]

\* ALLOWED_SHEETS_BY_TYPE
allowedSheets(fileType) ==
  IF fileType = "sellers" THEN {"Sheet1"}
  ELSE IF fileType = "locations" THEN {"DESPACHO"}
  ELSE {"RD", "skus", "PROD", "Skus", "Cintillos"}

\* A faulty Home branch: the error of one worksheet ends the loop.
processHome_StopsAtError(workbook) ==
  LET named(n) == CHOOSE i \in 1..Len(workbook) : workbook[i].name = n
      firstBad == IF \E i \in 1..Len(workbook) : workbook[i].fails
                    THEN CHOOSE i \in 1..Len(workbook) :
                           /\ workbook[i].fails
                           /\ \A j \in 1..Len(workbook) : workbook[j].fails => i <= j
                    ELSE Len(workbook) + 1
  IN  [n \in {workbook[i].name : i \in 1..Len(workbook)} \cap allowedSheets("home") |->
         IF named(n) >= firstBad THEN <<>>
         ELSE processRawData(workbook[named(n)].raw, n, workbook[named(n)].throws)]

\* The Home branch of processExcelFile: allSheetsData. A worksheet is its name,
\* the rows sheet_to_json gives, whether reading it throws, and the rows on
\* which processRow throws.
processHome(workbook) ==
  LET named(n) == CHOOSE i \in 1..Len(workbook) : workbook[i].name = n
  IN  [n \in {workbook[i].name : i \in 1..Len(workbook)} \cap allowedSheets("home") |->
         IF workbook[named(n)].fails \/ Len(workbook[named(n)].raw) = 0 THEN <<>>
         ELSE processRawData(workbook[named(n)].raw, n, workbook[named(n)].throws)]

\* totalRecords of the Home branch.
RECURSIVE totalRecords(_)
totalRecords(allSheetsData) ==
  IF DOMAIN allSheetsData = {} THEN 0
  ELSE LET n == CHOOSE m \in DOMAIN allSheetsData : TRUE
       IN  Len(allSheetsData[n]) +
           totalRecords([m \in DOMAIN allSheetsData \ {n} |-> allSheetsData[m]])

\* processExcelFile for a Home workbook, from the check of SheetNames on.
transformHome(workbook) ==
  IF Len(workbook) = 0
    THEN [thrown |-> TRUE, error |-> ExcelError, sheets |-> <<>>, totalRecords |-> 0]
    ELSE [thrown |-> FALSE, error |-> NullError, sheets |-> processHome(workbook),
          totalRecords |-> totalRecords(processHome(workbook))]

PipelineSame ==
  UNCHANGED <<ps, sched, task, inbox, archive, copies, meta, artifact, latest, now,
              out, processed, nextId, nrun, lim>>

\* The Home transformation is applied to the workbook under evaluation.
ProcessHome ==
  /\ calc.fn = "home" /\ ~calc.done
  /\ calc' = [calc EXCEPT !.done = TRUE, !.res = transformHome(calc.arg)]
  /\ PipelineSame

(* ------------------- the service and a Home workbook ------------------ *)
\* A worksheet of a header row, a row of data, a row of blanks and a second
\* row of data.
HomeRaw ==
  << << <<"x">>, <<"Y", " ">> >>,
     << <<"x">>, <<>> >>,
     << <<" ">>, <<>> >>,
     << <<"y">>, <<"x", " ">> >> >>

HomeSheets ==
  [name : {"RD", "skus"}, raw : {HomeRaw}, fails : BOOLEAN, throws : {{}, {2}}]

\* The workbooks of at most two worksheets, no two of one name.
HomeBooks ==
  {<<>>} \cup {<<s>> : s \in HomeSheets}
         \cup {w \in HomeSheets \X HomeSheets : w[1].name # w[2].name}

NextHome == Next \/ ProcessHome

InitHome ==
  \E workbook \in HomeBooks :
    /\ InitPipeline(LiveLimits)
    /\ calc = [fn |-> "home", done |-> FALSE, arg |-> workbook, res |-> transformHome(<<>>)]

SpecHome == InitHome /\ [][NextHome]_vars

(* ------------------------ errors under Home --------------------------- *)
\* The rows of a worksheet, header aside, that hold a cell that is not blank.
DataRows(raw) ==
  {r \in 2..Len(raw) : \E c \in 1..Len(raw[r]) : trim(raw[r][c]) # <<>>}

\* The record has a field for every column whose header is not blank, and
\* every field holds the cell of the row under such a column, trimmed, null
\* for the empty cell.
Shows(record, headers, row) ==
  LET named == {c \in 1..Len(headers) : trim(headers[c]) # <<>>}
  IN  /\ \A c \in named : cleanHeaderName(headers[c]) \in DOMAIN record.fields
      /\ \A n \in DOMAIN record.fields :
           \E c \in named :
             /\ cleanHeaderName(headers[c]) = n
             /\ record.fields[n] = IF row[c] = <<>> THEN Null ELSE trim(row[c])

\* C33: under the Home transformation a worksheet whose processing throws gets
\* the empty list while every other worksheet is processed, a row on which
\* processRow throws is left out while every other row that holds data gives
\* its record, and a workbook of no worksheet makes the cycle end in an Excel
\* error with the artifact, the inbox, the archive and its copies untouched.
C33_HomeErrors ==
  /\ [](calc.done =>
          /\ calc.res.thrown <=> Len(calc.arg) = 0
          /\ calc.res.thrown => calc.res.error = ExcelError
          /\ ~calc.res.thrown =>
               \A i \in 1..Len(calc.arg) :
                 LET s == calc.arg[i]
                     list == calc.res.sheets[s.name]
                 IN  /\ s.fails => list = <<>>
                     /\ ~s.fails =>
                          /\ Len(list) = Cardinality(DataRows(s.raw) \ s.throws)
                          /\ \A r \in DataRows(s.raw) \ s.throws :
                               \E k \in 1..Len(list) : Shows(list[k], s.raw[1], s.raw[r]))
  /\ [][\A t \in Tasks :
          (task[t].pc = "transform" /\ meta[task[t].file].content = NoSheets
             /\ task'[t] # task[t]) =>
            /\ task'[t].pc = "idle"
            /\ artifact' = artifact /\ inbox' = inbox
            /\ archive' = archive /\ copies' = copies
            /\ task[t].kind \in {"auto", "manual"} =>
                 /\ ps'.lastExecution.status = "failed"
                 /\ ps'.lastExecution.error = serializeError(ExcelError)
            /\ task[t].kind = "manual" => out'.code = httpStatus(ExcelError)]_vars

\* A workbook of two worksheets was transformed: the first threw, the second
\* lost the row that threw and kept the other; and a cycle on a workbook of no
\* worksheet has failed with nothing written or moved.
C33_Witness ==
  /\ calc.done /\ Len(calc.arg) = 2
  /\ calc.arg[1].fails /\ ~calc.arg[2].fails /\ calc.arg[2].throws = {2}
  /\ calc.res.sheets[calc.arg[1].name] = <<>>
  /\ Len(calc.res.sheets[calc.arg[2].name]) = 1
  /\ nrun = 1 /\ \A t \in Tasks : task[t].pc = "idle"
  /\ \E f \in DOMAIN meta : meta[f].content = NoSheets /\ f \in inbox
  /\ ps.lastExecution.status = "failed"
  /\ ps.lastExecution.error = serializeError(ExcelError)
  /\ artifact = NoArtifact /\ archive = {} /\ copies = {}

(* --------------------------- Sellers ---------------------------------- *)
\* The header labels of a Sellers worksheet that the cases below use, and one
\* label HEADER_MAPPING does not know.
SellerLabel == <<"S", "e", "l", "l", "e", "r">>
SellerLabelPadded == <<" ">> \o SellerLabel \o <<" ">>
NuevoSellerLabel == <<"N", "u", "e", "v", "o", " ", "s", "e", "l", "l", "e", "r">>
NroVentasLabel == <<"N", "r", "o", " ", "V", "e", "n", "t", "a", "s">>
EntregasLabel ==
  <<"%", " ", "e", "n", "t", "r", "e", "g", "a", "s", " ", "a", " ", "t", "i", "e", "m", "p", "o">>
OtherLabel == <<"O", "t", "r", "o">>

\* HEADER_MAPPING, on the labels above; "" where it has no entry.
HEADER_MAPPING(header) ==
  IF header = SellerLabel THEN "sellerId"
  ELSE IF header = NuevoSellerLabel THEN "isNew"
  ELSE IF header = NroVentasLabel THEN "sales"
  ELSE IF header = EntregasLabel THEN "delivery"
  ELSE ""

\* The decimal digits.
DigitValue ==
  [c \in {"0", "1", "2", "3", "4", "5", "6", "7", "8", "9"} |->
     CASE c = "0" -> 0 [] c = "1" -> 1 [] c = "2" -> 2 [] c = "3" -> 3 [] c = "4" -> 4
       [] c = "5" -> 5 [] c = "6" -> 6 [] c = "7" -> 7 [] c = "8" -> 8 [] c = "9" -> 9]

\* The longest run of digits a string begins with.
RECURSIVE digitsPrefix(_)
digitsPrefix(str) ==
  IF str # <<>> /\ Head(str) \in DOMAIN DigitValue
    THEN <<Head(str)>> \o digitsPrefix(Tail(str))
    ELSE <<>>

RECURSIVE valueOf(_)
valueOf(digits) ==
  IF digits = <<>> THEN 0
  ELSE 10 * valueOf(SubSeq(digits, 1, Len(digits) - 1)) + DigitValue[digits[Len(digits)]]

\* The sign a numeric string begins with is set aside.
Unsigned(str) == IF str # <<>> /\ Head(str) \in {"-", "+"} THEN Tail(str) ELSE str
Negative(str) == str # <<>> /\ Head(str) = "-"

\* parseInt of a decimal string (no 0x prefix): NaN when no digit follows the
\* optional sign, else the integer the leading digits spell.
parseInt(str) ==
  LET s == trimStart(str)
      digits == digitsPrefix(Unsigned(s))
  IN  IF digits = <<>> THEN [nan |-> TRUE, num |-> 0]
      ELSE [nan |-> FALSE,
            num |-> IF Negative(s) THEN 0 - valueOf(digits) ELSE valueOf(digits)]

RECURSIVE withoutZeros(_)
withoutZeros(digits) ==
  IF digits # <<>> /\ digits[Len(digits)] = "0"
    THEN withoutZeros(SubSeq(digits, 1, Len(digits) - 1))
    ELSE digits

\* A number: its sign, its whole part and the digits of its fraction.
Zero == [neg |-> FALSE, whole |-> 0, frac |-> <<>>]

\* parseFloat of a decimal string (no exponent, no Infinity): NaN when neither
\* the whole part nor the fraction has a digit.
parseFloat(str) ==
  LET s == trimStart(str)
      body == Unsigned(s)
      whole == digitsPrefix(body)
      rest == SubSeq(body, Len(whole) + 1, Len(body))
      frac == IF rest # <<>> /\ Head(rest) = "." THEN digitsPrefix(Tail(rest)) ELSE <<>>
      num == [neg |-> Negative(s), whole |-> valueOf(whole), frac |-> withoutZeros(frac)]
  IN  IF whole = <<>> /\ frac = <<>> THEN [nan |-> TRUE, num |-> Zero]
      ELSE [nan |-> FALSE,
            num |-> IF num.whole = 0 /\ num.frac = <<>> THEN Zero ELSE num]

\* replace('%', ''): the first percent sign is removed.
RECURSIVE withoutPercent(_)
withoutPercent(str) ==
  IF str = <<>> THEN <<>>
  ELSE IF Head(str) = "%" THEN Tail(str)
  ELSE <<Head(str)>> \o withoutPercent(Tail(str))

\* The value processSellersData stores for a cell under a mapped field.
sellerValue(fieldName, cell) ==
  IF cell = <<>>
    THEN IF fieldName = "isNew" THEN 0
         ELSE IF fieldName \in {"sales", "stars", "delivery"} THEN Zero
         ELSE <<>>
  ELSE LET value == trim(cell)
       IN  IF fieldName \in {"sales", "stars"}
             THEN (IF parseFloat(value).nan THEN Zero ELSE parseFloat(value).num)
           ELSE IF fieldName = "delivery"
             THEN (IF parseFloat(trim(withoutPercent(value))).nan THEN Zero
                   ELSE parseFloat(trim(withoutPercent(value))).num)
           ELSE IF fieldName = "isNew"
             THEN (IF parseInt(value).nan \/ parseInt(value).num = 0 THEN 0 ELSE 1)
           ELSE value

\* sellerObj of one row: a field per mapped column, a later column of the same
\* field overwriting the earlier one.
sellerObj(excelHeaders, row) ==
  LET cols == {i \in 1..Len(excelHeaders) : HEADER_MAPPING(excelHeaders[i]) # ""}
      last(f) == CHOOSE i \in cols :
                   /\ HEADER_MAPPING(excelHeaders[i]) = f
                   /\ \A j \in cols : HEADER_MAPPING(excelHeaders[j]) = f => j <= i
  IN  [f \in {HEADER_MAPPING(excelHeaders[i]) : i \in cols} |->
         sellerValue(f, row[last(f)])]

\* if (sellerObj.sellerId && sellerObj.sellerId !== '')
hasSellerId(obj) == "sellerId" \in DOMAIN obj /\ obj["sellerId"] # <<>>

\* The records of one worksheet, in the order of its rows.
sellersOfSheet(rawData) ==
  IF Len(rawData) < 2 THEN <<>>
  ELSE LET excelHeaders == [i \in 1..Len(rawData[1]) |-> trim(rawData[1][i])]
           kept == validRows(rawData, 2)
           objs == [k \in 1..Len(kept) |-> sellerObj(excelHeaders, rawData[kept[k]])]
       IN  SelectSeq(objs, hasSellerId)

\* processSellersData: the records of the allowed worksheets, one after another.
RECURSIVE processSellersData(_)
processSellersData(workbook) ==
  IF workbook = <<>> THEN <<>>
  ELSE (IF Head(workbook).name \in allowedSheets("sellers")
          THEN sellersOfSheet(Head(workbook).raw)
          ELSE <<>>) \o processSellersData(Tail(workbook))

\* The Sellers transformation is applied to the workbook under evaluation.
ProcessSellers ==
  /\ calc.fn = "sellers" /\ ~calc.done
  /\ calc' = [calc EXCEPT !.done = TRUE, !.res = processSellersData(calc.arg)]
  /\ PipelineSame

(* --------------------------- Locations -------------------------------- *)
\* headers.map: a cell per header column, the empty string for a cell that is
\* missing; with raw: false every other cell is a string already.
stringRow(headers, row) ==
  [c \in 1..Len(headers) |-> IF c > Len(row) \/ row[c] = <<>> THEN <<>> ELSE row[c]]

\* A faulty trailing-empties loop: nothing is popped.
popEmpty_Keeps(row) == row

\* while (stringRow.length > 0 && last === '') stringRow.pop()
RECURSIVE popEmpty(_)
popEmpty(row) ==
  IF Len(row) > 0 /\ row[Len(row)] = <<>>
    THEN popEmpty(SubSeq(row, 1, Len(row) - 1))
    ELSE row

\* The rows one worksheet adds to the result: its headers, then its data rows.
locationsOfSheet(rawData) ==
  IF Len(rawData) < 2 THEN <<>>
  ELSE LET headers == [i \in 1..Len(rawData[1]) |-> trim(rawData[1][i])]
           kept == validRows(rawData, 2)
       IN  <<headers>> \o
           [k \in 1..Len(kept) |-> popEmpty(stringRow(headers, rawData[kept[k]]))]

\* processLocationsData
RECURSIVE processLocationsData(_)
processLocationsData(workbook) ==
  IF workbook = <<>> THEN <<>>
  ELSE (IF Head(workbook).name \in allowedSheets("locations")
          THEN locationsOfSheet(Head(workbook).raw)
          ELSE <<>>) \o processLocationsData(Tail(workbook))

\* The Locations transformation is applied to the workbook under evaluation.
ProcessLocations ==
  /\ calc.fn = "locations" /\ ~calc.done
  /\ calc' = [calc EXCEPT !.done = TRUE, !.res = processLocationsData(calc.arg)]
  /\ PipelineSame

(* ------------------ the transformations on small worksheets ----------- *)
\* sheet_to_json with header: 1 and defval: '' gives every row of a worksheet
\* the width of the worksheet's range: rawData is a matrix.
MaxWidth == 2
MaxDataRows == 2

HomeHeaderCells == {<<>>, <<"x">>, <<"X", " ">>, <<"y">>}
HomeCells == {<<>>, <<" ">>, <<"x">>, <<" ", "y">>}

SellerHeaderCells ==
  {SellerLabel, SellerLabelPadded, NuevoSellerLabel, NroVentasLabel, EntregasLabel, OtherLabel}
SellerCells ==
  {<<>>, <<" ">>, <<"a", " ">>, <<"0">>, <<"1">>, <<"0", ".", "5">>, <<"9", "5", "%">>}

LocationHeaderCells == {<<>>, <<"x">>, <<"y", " ">>}
LocationCells == {<<>>, <<" ">>, <<"x">>, <<"y", " ">>}

\* A workbook of one worksheet, its name allowed for the variant or not; raw is
\* what sheet_to_json gives for the worksheet.
HomeBook(name, raw, throws) ==
  [fn |-> "home", done |-> FALSE, res |-> transformHome(<<>>),
   arg |-> <<[name |-> name, raw |-> raw, fails |-> FALSE, throws |-> throws]>>]

SellersBook(name, raw) ==
  [fn |-> "sellers", done |-> FALSE, res |-> <<>>, arg |-> <<[name |-> name, raw |-> raw]>>]

LocationsBook(name, raw) ==
  [fn |-> "locations", done |-> FALSE, res |-> <<>>, arg |-> <<[name |-> name, raw |-> raw]>>]

\* The worksheet is empty, or a header row and up to MaxDataRows rows.
SheetChoice ==
  \/ calc \in {HomeBook("RD", <<>>, {}), SellersBook("Sheet1", <<>>),
               LocationsBook("DESPACHO", <<>>)}
  \/ \E name \in {"RD", "Hoja1"}, throws \in {{}, {2}}, n \in 0..MaxDataRows,
         h \in [1..MaxWidth -> HomeHeaderCells] :
       \E d \in [1..n -> [1..MaxWidth -> HomeCells]] :
         calc = HomeBook(name, <<h>> \o d, throws)
  \/ \E name \in {"Sheet1", "Hoja1"}, n \in 0..MaxDataRows,
         h \in [1..MaxWidth -> SellerHeaderCells] :
       \E d \in [1..n -> [1..MaxWidth -> SellerCells]] :
         calc = SellersBook(name, <<h>> \o d)
  \/ \E name \in {"DESPACHO", "Hoja1"}, n \in 0..MaxDataRows,
         h \in [1..MaxWidth -> LocationHeaderCells] :
       \E d \in [1..n -> [1..MaxWidth -> LocationCells]] :
         calc = LocationsBook(name, <<h>> \o d)

NextSheets == ProcessHome \/ ProcessSellers \/ ProcessLocations

InitSheets == InitPipeline(LiveLimits) /\ SheetChoice

SpecSheets == InitSheets /\ [][NextSheets]_vars

(* ------------------------ rows and records ---------------------------- *)
\* The strictly increasing maps from the places of a list to a set of rows.
Increasing(n, rows) ==
  {f \in [1..n -> rows] : \A j, k \in 1..n : j < k => f[j] < f[k]}

\* The Sellers record carries the row's cell under a Seller column, trimmed.
ShowsSeller(record, headers, row) ==
  \E c \in 1..Len(headers) :
    trim(headers[c]) = SellerLabel /\ record["sellerId"] = trim(row[c])

\* C34: the records of a Home worksheet and of a Sellers worksheet map, one to
\* one and in increasing order, to data rows that hold a cell that is not
\* blank, each record made of the cells of its row.
C34_RowsInOrder ==
  (calc.done /\ calc.fn \in {"home", "sellers"}) =>
    LET s == calc.arg[1]
        list == IF calc.fn = "sellers" THEN calc.res
                ELSE IF s.name \in DOMAIN calc.res.sheets THEN calc.res.sheets[s.name]
                ELSE <<>>
    IN  \E f \in Increasing(Len(list), DataRows(s.raw)) :
          \A k \in 1..Len(list) :
            IF calc.fn = "home" THEN Shows(list[k], s.raw[1], s.raw[f[k]])
            ELSE ShowsSeller(list[k], s.raw[1], s.raw[f[k]])

\* A Home worksheet of a blank row between two rows of data gave two records,
\* the second from the third row.
C34_Witness ==
  /\ calc.done /\ calc.fn = "home" /\ calc.arg[1].name = "RD"
  /\ Len(calc.arg[1].raw) = 3 /\ calc.arg[1].throws = {}
  /\ calc.arg[1].raw[1] = << <<"x">>, <<"y">> >>
  /\ calc.arg[1].raw[2] = << <<" ">>, <<>> >>
  /\ calc.arg[1].raw[3] = << <<"x">>, <<" ", "y">> >>
  /\ Len(calc.res.sheets["RD"]) = 1
  /\ calc.res.sheets["RD"][1].fields[<<"y">>] = <<"y">>

(* ------------------------ the Locations rows -------------------------- *)
\* The k-th smallest member of a set of row numbers.
Nth(rows, k) == CHOOSE r \in rows : Cardinality({q \in rows : q < r}) = k - 1

\* C35: the dataset of a Locations worksheet of at least two rows begins with
\* the header row, and then has, in order, one row per source row that holds a
\* cell that is not blank: that row's cells up to its last cell that is not
\* the empty string, so that the emitted row is not empty and does not end in
\* the empty string while an empty string before its end keeps its place. A
\* worksheet that is not the allowed one or lacks a data row gives no row.
C35_LocationRows ==
  (calc.done /\ calc.fn = "locations") =>
    LET s == calc.arg[1]
        rows == DataRows(s.raw)
    IN  IF s.name # "DESPACHO" \/ Len(s.raw) < 2 THEN calc.res = <<>>
        ELSE /\ Len(calc.res) = 1 + Cardinality(rows)
             /\ calc.res[1] = [c \in 1..Len(s.raw[1]) |-> trim(s.raw[1][c])]
             /\ \A k \in 1..Cardinality(rows) :
                  LET emitted == calc.res[k + 1]
                      source == s.raw[Nth(rows, k)]
                  IN  /\ Len(emitted) >= 1 /\ Len(emitted) <= Len(source)
                      /\ emitted[Len(emitted)] # <<>>
                      /\ \A c \in 1..Len(emitted) : emitted[c] = source[c]
                      /\ \A c \in (Len(emitted) + 1)..Len(source) : source[c] = <<>>

\* A worksheet of a row ending in an empty cell, a blank row and a row that
\* begins with an empty cell gave the header row, the first row cut to one
\* cell and the third row whole.
C35_Witness ==
  /\ calc.done /\ calc.fn = "locations" /\ calc.arg[1].name = "DESPACHO"
  /\ calc.arg[1].raw =
       << << <<"x">>, <<"y", " ">> >>, << <<"x">>, <<>> >>, << <<>>, <<"x">> >> >>
  /\ calc.res = << << <<"x">>, <<"y">> >>, << <<"x">> >>, << <<>>, <<"x">> >> >>

(* ------------------------ the Sellers records ------------------------- *)
\* The columns of a header row whose trimmed label is the given one; the cell
\* of a row under the last of them.
Labelled(headers, label) == {c \in 1..Len(headers) : trim(headers[c]) = label}

Under(headers, label, row) ==
  row[CHOOSE c \in Labelled(headers, label) : \A d \in Labelled(headers, label) : d <= c]

\* A row holds a seller: the worksheet has a Seller column and the row's cell
\* under it is not blank.
HoldsSeller(headers, row) ==
  /\ Labelled(headers, SellerLabel) # {}
  /\ trim(Under(headers, SellerLabel, row)) # <<>>

\* C36: the Sellers dataset has, in order, one record per data row that holds
\* a seller and none for any other row; every record has that row's seller,
\* trimmed, as its sellerId and has an isNew that is 0 or 1: 0 when the cell
\* under Nuevo seller is blank, spells no integer or spells zero, else 1.
C36_SellerRecords ==
  (calc.done /\ calc.fn = "sellers") =>
    LET s == calc.arg[1]
        rows == IF s.name # "Sheet1" \/ Len(s.raw) < 2 THEN {}
                ELSE {r \in DataRows(s.raw) : HoldsSeller(s.raw[1], s.raw[r])}
    IN  /\ Len(calc.res) = Cardinality(rows)
        /\ \A k \in 1..Cardinality(rows) :
             LET record == calc.res[k]
                 source == s.raw[Nth(rows, k)]
             IN  /\ "sellerId" \in DOMAIN record
                 /\ record["sellerId"] # <<>>
                 /\ record["sellerId"] = trim(Under(s.raw[1], SellerLabel, source))
                 /\ "isNew" \in DOMAIN record
                 /\ record["isNew"] \in {0, 1}
                 /\ Labelled(s.raw[1], NuevoSellerLabel) # {} =>
                      LET cell == trim(Under(s.raw[1], NuevoSellerLabel, source))
                      IN  record["isNew"] = 0 <=>
                            parseInt(cell).nan \/ parseInt(cell).num = 0

(* --------------------------- sendData in batches ---------------------- *)
\* The batch size when VTEX_BATCH_SIZE is unset or spells no positive number.
DefaultBatchSize == 100

\* process.env.VTEX_BATCH_SIZE when unset: parseInt reads "undefined".
EnvUnset == <<"u", "n", "d", "e", "f", "i", "n", "e", "d">>

\* getBatchSize: parseInt(process.env.VTEX_BATCH_SIZE) || 100
getBatchSize(env) ==
  IF parseInt(env).nan \/ parseInt(env).num = 0 THEN DefaultBatchSize
  ELSE parseInt(env).num

\* A faulty createBatches: one batch holds everything.
createBatches_Whole(data, batchSize) == <<data>>

\* createBatches, for a batch size above zero: data.slice(i, i + batchSize)
\* for i = 0, batchSize, 2 * batchSize, ... below data.length.
RECURSIVE createBatches(_, _)
createBatches(data, batchSize) ==
  IF Len(data) = 0 THEN <<>>
  ELSE IF Len(data) <= batchSize THEN <<data>>
  ELSE <<SubSeq(data, 1, batchSize)>> \o
       createBatches(SubSeq(data, batchSize + 1, Len(data)), batchSize)

\* What sendData has returned or thrown; NoResult before it has.
NoResult ==
  [thrown |-> FALSE, error |-> NullError, success |-> FALSE, totalRecords |-> 0,
   successfulRecords |-> 0, failedRecords |-> 0, batchResults |-> <<>>]

\* A call of sendData on jsonData with VTEX_BATCH_SIZE set to env.
SendCall(jsonData, env) ==
  [fn |-> "send", done |-> FALSE, stage |-> "call", jsonData |-> jsonData, env |-> env,
   batchSize |-> 0, batches |-> <<>>, i |-> 0, successCount |-> 0, errorCount |-> 0,
   results |-> <<>>, res |-> NoResult]

\* sendData up to its loop: the validation, getBatchSize and createBatches.
SendData ==
  /\ calc.fn = "send" /\ calc.stage = "call"
  /\ calc' =
       IF ~calc.jsonData.isArray \/ Len(calc.jsonData.items) = 0
         THEN [calc EXCEPT !.stage = "end", !.done = TRUE,
                           !.res = [NoResult EXCEPT !.thrown = TRUE,
                                                    !.error = ValidationError]]
         ELSE [calc EXCEPT !.stage = "loop",
                           !.batchSize = getBatchSize(calc.env),
                           !.batches = createBatches(calc.jsonData.items,
                                                     getBatchSize(calc.env))]
  /\ PipelineSame

\* One turn of the loop: sendBatch of the next batch resolves or rejects.
SendBatch ==
  /\ calc.fn = "send" /\ calc.stage = "loop" /\ calc.i < Len(calc.batches)
  /\ \E ok \in BOOLEAN :
       LET batch == calc.batches[calc.i + 1]
           entry == [batchNumber |-> calc.i + 1, success |-> ok, recordCount |-> Len(batch)]
       IN  calc' = [calc EXCEPT
                      !.i = calc.i + 1,
                      !.results = Append(calc.results, entry),
                      !.successCount = IF ok THEN calc.successCount + Len(batch)
                                       ELSE calc.successCount,
                      !.errorCount = IF ok THEN calc.errorCount
                                     ELSE calc.errorCount + Len(batch)]
  /\ PipelineSame

\* After the loop: finalResult is returned.
SendReturn ==
  /\ calc.fn = "send" /\ calc.stage = "loop" /\ calc.i = Len(calc.batches)
  /\ calc' = [calc EXCEPT
                !.stage = "end", !.done = TRUE,
                !.res = [thrown |-> FALSE, error |-> NullError,
                         success |-> calc.errorCount = 0,
                         totalRecords |-> Len(calc.jsonData.items),
                         successfulRecords |-> calc.successCount,
                         failedRecords |-> calc.errorCount,
                         batchResults |-> calc.results]]
  /\ PipelineSame

(* ------------------ sendData on small lists of records ---------------- *)
MaxRecords == 4

\* The arrays of up to MaxRecords records, and a value that is no array.
SendInputs ==
  {[isArray |-> FALSE, items |-> <<>>]} \cup
  UNION {{[isArray |-> TRUE, items |-> d] : d \in [1..n -> {"a", "b"}]} : n \in 0..MaxRecords}

SendEnvs == {EnvUnset, <<"0">>, <<"1">>, <<"2">>, <<"3">>}

NextSend == SendData \/ SendBatch \/ SendReturn

InitSend ==
  \E jsonData \in SendInputs, env \in SendEnvs :
    InitPipeline(LiveLimits) /\ calc = SendCall(jsonData, env)

SpecSend == InitSend /\ [][NextSend]_vars

(* ------------------------ batches ------------------------------------- *)
RECURSIVE Concat(_)
Concat(lists) == IF lists = <<>> THEN <<>> ELSE Head(lists) \o Concat(Tail(lists))

\* C37: the batches of sendData are not empty, hold at most the batch size
\* and, one after another, are the input; every batch gets its turn whatever
\* became of the batches before it, and the result counts the records of the
\* batches that resolved and of those that rejected: their sum is the number
\* of records and success is true exactly when no batch rejected.
C37_Batches ==
  calc.fn = "send" =>
    /\ calc.stage # "call" /\ ~calc.res.thrown =>
         /\ Concat(calc.batches) = calc.jsonData.items
         /\ \A b \in 1..Len(calc.batches) :
              Len(calc.batches[b]) >= 1 /\ Len(calc.batches[b]) <= calc.batchSize
         /\ Len(calc.results) = calc.i
         /\ \A b \in 1..calc.i :
              /\ calc.results[b].batchNumber = b
              /\ calc.results[b].recordCount = Len(calc.batches[b])
    /\ calc.done =>
         /\ calc.res.thrown <=> (~calc.jsonData.isArray \/ Len(calc.jsonData.items) = 0)
         /\ ~calc.res.thrown =>
              /\ Len(calc.res.batchResults) = Len(calc.batches)
              /\ calc.res.success <=>
                   \A b \in 1..Len(calc.batches) : calc.res.batchResults[b].success
              /\ calc.res.totalRecords = Len(calc.jsonData.items)
              /\ calc.res.successfulRecords + calc.res.failedRecords =
                   calc.res.totalRecords

\* Three records went out in batches of two: the first batch rejected, the
\* second was sent all the same and resolved.
C37_Witness ==
  /\ calc.fn = "send" /\ calc.done /\ ~calc.res.thrown
  /\ Len(calc.jsonData.items) = 3 /\ calc.batchSize = 2
  /\ Len(calc.res.batchResults) = 2
  /\ ~calc.res.batchResults[1].success /\ calc.res.batchResults[2].success
  /\ ~calc.res.success
  /\ calc.res.successfulRecords = 1 /\ calc.res.failedRecords = 2

====
